---- MODULE Spec2Model ----
(***************************************************************************)
(* State machine of the pokeball_game program: the VRF request/consume     *)
(* protocol, the Pokemon slot registry and the NFT vault.  Every           *)
(* instruction is one atomic action.  The error an instruction returns is  *)
(* an operator of the state and the inputs; an instruction that returns an *)
(* error is reverted and leaves no trace: it changes nothing.              *)
(***************************************************************************)
EXTENDS Integers, Naturals, Sequences, FiniteSets, TLC

(* ---------------- program constants (constants.rs) ---------------- *)
MAX_POKEMON_SLOTS == 20
MAX_COORDINATE == 999
MAX_THROW_ATTEMPTS == 3
MAX_VAULT_SIZE == 20
NUM_BALL_TYPES == 4
VRF_TYPE_SPAWN == 0
VRF_TYPE_THROW == 1
DEFAULT_BALL_PRICES == [i \in 0..3 |-> CASE i = 0 -> 1000000 [] i = 1 -> 10000000
                                         [] i = 2 -> 25000000 [] OTHER -> 49900000]
DEFAULT_CATCH_RATES == [i \in 0..3 |-> CASE i = 0 -> 2 [] i = 1 -> 20
                                         [] i = 2 -> 50 [] OTHER -> 99]

(* Pubkey::default() *)
DefaultPubkey == 0

(* ---------------- bounds of the model ---------------- *)
(* VrfRequest accounts that may be created in Spec and SpecVault *)
MaxRequests == 2
(* VrfRequest accounts that may be created in SpecThrow *)
MaxThrows == 3
(* cap on pokemon_id_counter for force_spawn_pokemon *)
MaxPokemonId == 2
(* cap on the number of deposit_nft calls that succeed *)
MaxDeposits == 2
(* cap on the number of balls a player may buy *)
MaxPurchased == 3
(* number of distinct NFT mints the authority deposits from *)
NumMints == 2
(* number of player wallets *)
NumPlayers == 1
(* cap on the number of withdraw_nft calls that succeed in SpecFill *)
MaxWithdrawals == 2

(* NFT mints: enough of them to fill the vault and offer two more *)
Mints == 1..(MAX_VAULT_SIZE + 2)
(* the mints passed to deposit_nft where the vault is not to be filled *)
DepositInputs == 1..NumMints
Players == 1..NumPlayers
(* the authority wallet *)
Authority == 100
(* the wallet that signs consume_randomness as payer when it is not the player *)
Cranker == 200

(* ---------------- inputs ---------------- *)
(* slot indexes passed to the instructions; 20 is out of range *)
SlotInputs == {0, 1, 20}
(* ball types passed to the instructions; 4 is out of range *)
BallInputs == {0, 4}
(* coordinates passed to force_spawn / reposition; 1000 is out of range *)
CoordInputs == {7, 1000}
(* Clock::get()?.unix_timestamp *)
Timestamps == {1000}

(* A randomness blob [u8; 64]: bytes 0 and 8 as given, byte 7 equal to hi,
   bytes 16, 17, 18, 19 the four bytes of pos, every other byte 0. *)
MkRand(b0, b8, hi, pos) ==
    [i \in 0..63 |-> CASE i = 0 -> b0 [] i = 8 -> b8
                       [] i = 7 -> hi
                       [] i \in 16..19 -> pos[i - 15]
                       [] OTHER -> 0]

(* roll 1, selection value 0; position bytes 4, 3, 2, 1: x = 772, y = 258 *)
RandLow == MkRand(1, 0, 0, <<4, 3, 2, 1>>)
(* roll 0, selection value 1 *)
RandSel == MkRand(0, 1, 0, <<4, 3, 2, 1>>)
(* roll (255 + 255 * 256^7) % 100 = 35, selection value 255, high byte set;
   position bytes 255, 255 and 233, 3: x = 65535 % 1000 = 535,
   y = 1001 % 1000 = 1 *)
RandHigh == MkRand(255, 255, 255, <<255, 255, 233, 3>>)
(* roll (91 + 3 * 256^7) % 100 = 99, the largest roll; position bytes
   1, 2 and 3, 4: x = 513, y = 1027 % 1000 = 27 *)
RandMax == MkRand(91, 0, 3, <<1, 2, 3, 4>>)

(* position bytes 233, 3 and 255, 255: x = 1001 % 1000 = 1, y = 65535 % 1000 = 535 *)
RandSpawn == [MkRand(233, 0, 0, <<9, 8, 7, 6>>) EXCEPT ![1] = 3, ![2] = 255, ![3] = 255]

(* The blobs the oracle may publish. *)
RandomnessInputs == {RandLow, RandSel, RandHigh}

(* The blobs published for spawn requests in the slot scenario. *)
SpawnRandomnessInputs == RandomnessInputs \cup {RandSpawn}

(* blobs whose rolls lie on either side of each default catch rate; their
   position bytes b, 1 and 2, 3 give x = 256 + b, y = 770 *)
ThrowRandomnessInputs ==
    {MkRand(b, 0, 0, <<b, 1, 2, 3>>) : b \in {1, 2, 19, 20, 49, 50}} \cup {RandHigh, RandMax}

(* the largest value of a u8 (PokemonSlots.active_count) *)
U8Max == 255

(* ---------------- randomness derivation ---------------- *)
(* u16::from_le_bytes([r[i], r[i+1]]) *)
U16Le(r, i) == r[i] + 256 * r[i + 1]

(* u64::from_le_bytes(r[lo .. lo+len]) % m, computed by Horner's rule modulo m
   so that no intermediate value leaves the range of the checker's integers *)
RECURSIVE U64LeMod(_, _, _, _)
U64LeMod(r, lo, len, m) ==
    IF len = 0 THEN 0
    ELSE (r[lo] + 256 * U64LeMod(r, lo + 1, len - 1, m)) % m

(* first byte and length of the range each decision reads *)
SpawnPosOffset == 0
CatchRollOffset == 0
CatchRollLen == 8
NftIndexOffset_Overlap == CatchRollOffset + 4
NftIndexOffset == 8
NftIndexLen == 8
RelocPosOffset == 16

SpawnPosX(r) == U16Le(r, SpawnPosOffset) % (MAX_COORDINATE + 1)
(* mutant: both coordinates are taken from the first two bytes *)
SpawnPosY_SameBytes(r) == U16Le(r, SpawnPosOffset) % (MAX_COORDINATE + 1)
SpawnPosY(r) == U16Le(r, SpawnPosOffset + 2) % (MAX_COORDINATE + 1)
CatchRoll(r) == U64LeMod(r, CatchRollOffset, CatchRollLen, 100)
(* mutant: the index is taken from the bytes of the catch roll *)
NftIndex_FromRoll(r, count) == U64LeMod(r, CatchRollOffset, CatchRollLen, count)
NftIndex(r, count) == U64LeMod(r, NftIndexOffset, NftIndexLen, count)
(* mutant: the relocation coordinate is not reduced modulo MAX_COORDINATE + 1 *)
RelocPosX_NoWrap(r) == U16Le(r, RelocPosOffset)
RelocPosX(r) == U16Le(r, RelocPosOffset) % (MAX_COORDINATE + 1)
(* mutant: both relocation coordinates are taken from bytes [16..18] *)
RelocPosY_SameBytes(r) == U16Le(r, RelocPosOffset) % (MAX_COORDINATE + 1)
RelocPosY(r) == U16Le(r, RelocPosOffset + 2) % (MAX_COORDINATE + 1)

(* the bytes each decision reads *)
SpawnPosBytes == SpawnPosOffset..(SpawnPosOffset + 3)
CatchRollBytes == CatchRollOffset..(CatchRollOffset + CatchRollLen - 1)
NftIndexBytes == NftIndexOffset..(NftIndexOffset + NftIndexLen - 1)
RelocPosBytes == RelocPosOffset..(RelocPosOffset + 3)

Decisions == {"spawn_pos", "catch_roll", "nft_index", "reloc_pos"}
NoReads == [d \in Decisions |-> {}]

(* ---------------- VRF seeds ---------------- *)
RECURSIVE LeByte(_, _)
LeByte(n, i) == IF i = 0 THEN n % 256 ELSE LeByte(n \div 256, i - 1)

(* b"pkblgame" *)
SeedTag == <<112, 107, 98, 108, 103, 97, 109, 101>>

(* mutant: the counter is truncated to its low byte *)
make_vrf_seed_LowByte(counter, request_type) ==
    [i \in 0..31 |-> CASE i = 0 -> LeByte(counter, 0)
                       [] i = 8 -> request_type
                       [] i >= 24 -> SeedTag[i - 23]
                       [] OTHER -> 0]

make_vrf_seed(counter, request_type) ==
    [i \in 0..31 |-> CASE i < 8 -> LeByte(counter, i)
                       [] i = 8 -> request_type
                       [] i >= 24 -> SeedTag[i - 23]
                       [] OTHER -> 0]

(* ---------------- account state ---------------- *)
VARIABLES
    game_config,       \* GameConfig
    pokemon_slots,     \* PokemonSlots
    nft_vault,         \* NftVault
    vrf_requests,      \* VrfRequest accounts, by the vrf_counter value of their PDA seed
    vrf_randomness,    \* the oracle's randomness accounts, by seed
    player_inventory,  \* PlayerInventory accounts, by player
    last,              \* the most recent instruction that succeeded, and its events
    deposits,          \* per mint: number of successful deposit_nft calls
    awards,            \* per mint: number of NftAwarded events
    consumed,          \* per request: number of successful consume_randomness calls
    reads,             \* per decision: randomness bytes read so far by any consume
    since_award,       \* per mint: awarded, and not deposited again since
    vault_nft_account, \* per mint: amount held by the vault's token account
    rejected,          \* per request: the errors consume_randomness has returned on it
    treasury           \* TreasuryConfig.total_withdrawn and the game's SolBalls token account

vars == <<game_config, pokemon_slots, nft_vault, vrf_requests, vrf_randomness,
          player_inventory, last, deposits, awards, consumed, reads, since_award,
          vault_nft_account, rejected, treasury>>

(* the accounts of the program, without the outcome record and the history *)
accounts == <<game_config, pokemon_slots, nft_vault, vrf_requests, vrf_randomness,
              player_inventory, vault_nft_account, treasury>>
history == <<deposits, awards, consumed, reads, since_award, rejected>>

SlotIdx == 0..(MAX_POKEMON_SLOTS - 1)
(* the VrfRequest PDAs created so far, by the vrf_counter value that seeds them,
   and the seeds of the randomness accounts requested from the oracle *)
RequestIds == DOMAIN vrf_requests
SeedSpace == DOMAIN vrf_randomness

(* PokemonSlot::default() *)
DefaultSlot == [is_active |-> FALSE, pokemon_id |-> 0, pos_x |-> 0, pos_y |-> 0,
                throw_attempts |-> 0, spawn_timestamp |-> 0]

ZeroSeed == [i \in 0..31 |-> 0]
ZeroRand == [i \in 0..63 |-> 0]

(* a VrfRequest PDA that has not been created *)
NoRequest == [exists |-> FALSE, request_type |-> 0, player |-> DefaultPubkey,
              slot_index |-> 0, ball_type |-> 0, seed |-> ZeroSeed, is_fulfilled |-> FALSE]

(* a PlayerInventory PDA that has not been created *)
NoInventory == [player |-> DefaultPubkey, balls |-> [t \in 0..3 |-> 0],
                total_purchased |-> 0, total_throws |-> 0, total_catches |-> 0]

(* the SolBalls every player's token account holds before the first purchase *)
PlayerFunds == 150000000

(* TreasuryConfig with nothing withdrawn, an empty game token account, and the
   players' SolBalls token accounts *)
NoTreasury == [total_withdrawn |-> 0, game_solballs_account |-> 0,
               player_token_account |-> [p \in Players |-> PlayerFunds]]

(* a randomness account the oracle has not been asked for *)
NoRandomness == [state |-> "none", randomness |-> ZeroRand]

(* record of the last instruction observed: its error code ("Ok" when it
   succeeded), the Request it was about and what a consume decided *)
Outcome(op) == [op |-> op, err |-> "Ok", req |-> -1, caught |-> FALSE,
                relocated |-> FALSE, awarded |-> DefaultPubkey,
                transferred |-> FALSE, recipient |-> DefaultPubkey, reads |-> NoReads]

(* u8/u32/u64 saturating_sub(1) *)
SatSub1(n) == IF n = 0 THEN 0 ELSE n - 1

(* ---------------- u64 arithmetic ---------------- *)
(* A u64 is held by the integer congruent to it modulo 2^64 that lies next to
   zero (its two's-complement reading): 0, 1, 2, ... stand for themselves and
   -1, -2, ... for u64::MAX, u64::MAX - 1, ...; LeByte yields the u64's bytes
   for both. *)
U64Max == 0 - 1

(* u64::checked_add(a, b) is None: the sum of the two u64 reaches 2^64 *)
U64AddOverflows(a, b) ==
    IF a < 0 /\ b < 0 THEN TRUE
    ELSE IF a < 0 \/ b < 0 THEN a + b >= 0
    ELSE FALSE

(* a < b for two u64 *)
U64Less(a, b) == IF (a < 0) = (b < 0) THEN a < b ELSE b < 0

(* u32::checked_add(a, b) is None; a u32 is held like a u64, the values of
   its upper half by their negative two's-complement reading *)
U32AddOverflows(a, b) ==
    IF a < 0 /\ b < 0 THEN TRUE
    ELSE IF a < 0 \/ b < 0 THEN a + b >= 0
    ELSE FALSE

(* (price as u128) * (quantity as u128) exceeds u64::MAX, the product taken
   as the sum of quantity copies of price *)
RECURSIVE CostOverflows(_, _)
CostOverflows(price, quantity) ==
    IF quantity <= 1 THEN FALSE
    ELSE \/ CostOverflows(price, quantity - 1)
         \/ U64AddOverflows(price * (quantity - 1), price)

Init ==
    /\ game_config = [is_initialized |-> FALSE, authority |-> DefaultPubkey,
                      ball_prices |-> [t \in 0..3 |-> 0],
                      catch_rates |-> [t \in 0..3 |-> 0],
                      max_active_pokemon |-> 0, pokemon_id_counter |-> 0,
                      total_revenue |-> 0, vrf_counter |-> 0]
    /\ pokemon_slots = [slots |-> [i \in SlotIdx |-> DefaultSlot], active_count |-> 0]
    /\ nft_vault = [mints |-> [i \in SlotIdx |-> DefaultPubkey], count |-> 0, max_size |-> 0]
    /\ vrf_requests = [c \in {} |-> NoRequest]
    /\ vrf_randomness = [s \in {} |-> NoRandomness]
    /\ player_inventory = [p \in Players |-> NoInventory]
    /\ last = Outcome("none")
    /\ deposits = [m \in Mints |-> 0]
    /\ awards = [m \in Mints |-> 0]
    /\ consumed = [c \in {} |-> 0]
    /\ reads = NoReads
    /\ since_award = [m \in Mints |-> FALSE]
    /\ vault_nft_account = [m \in Mints |-> 0]
    /\ rejected = [c \in {} |-> {}]
    /\ treasury = NoTreasury

(* ---------------- initialize ---------------- *)
(* the key of the Mint account passed as solballs_mint *)
SolballsMint == 500
(* the solballs_mint argument: the key of the account passed, or another key *)
MintArgInputs == {SolballsMint, 777}
PriceInputs == { DEFAULT_BALL_PRICES, [DEFAULT_BALL_PRICES EXCEPT ![2] = 0] }
RateInputs == { DEFAULT_CATCH_RATES, [DEFAULT_CATCH_RATES EXCEPT ![1] = 101] }

(* mutant: only the first price and the first rate are validated *)
InitializeError_FirstOnly(solballs_mint, ball_prices, catch_rates) ==
    IF ball_prices[0] = 0 THEN "ZeroBallPrice"
    ELSE IF catch_rates[0] > 100 THEN "InvalidCatchRate"
    ELSE IF SolballsMint # solballs_mint THEN "Unauthorized"
    ELSE "Ok"

(* the prices, then the rates, then the solballs_mint argument against the key
   of the mint account passed in *)
InitializeError(solballs_mint, ball_prices, catch_rates) ==
    IF \E t \in 0..3 : ball_prices[t] = 0 THEN "ZeroBallPrice"
    ELSE IF \E t \in 0..3 : catch_rates[t] > 100 THEN "InvalidCatchRate"
    ELSE IF SolballsMint # solballs_mint THEN "Unauthorized"
    ELSE "Ok"

Initialize(solballs_mint, ball_prices, catch_rates) ==
    /\ ~game_config.is_initialized
    /\ IF InitializeError(solballs_mint, ball_prices, catch_rates) # "Ok"
       THEN UNCHANGED vars
       ELSE /\ game_config' = [is_initialized |-> TRUE, authority |-> Authority,
                               ball_prices |-> ball_prices, catch_rates |-> catch_rates,
                               max_active_pokemon |-> MAX_POKEMON_SLOTS,
                               pokemon_id_counter |-> 0, total_revenue |-> 0,
                               vrf_counter |-> 0]
            /\ pokemon_slots' = [slots |-> [i \in SlotIdx |-> DefaultSlot], active_count |-> 0]
            /\ nft_vault' = [mints |-> [i \in SlotIdx |-> DefaultPubkey], count |-> 0,
                             max_size |-> MAX_VAULT_SIZE]
            /\ treasury' = [treasury EXCEPT !.total_withdrawn = 0]
            /\ last' = Outcome("initialize")
            /\ UNCHANGED <<vrf_requests, vrf_randomness, player_inventory, history,
                           vault_nft_account>>

(* ---------------- purchase_balls ---------------- *)
(* quantities passed to purchase_balls *)
QuantityInputs == {0, 3}

(* the largest total cost of one purchase; the program names the constant
   and constants.rs does not define it: the price of one ball of the last
   type, 49.90 SolBalls *)
MAX_PURCHASE_AMOUNT == 49900000

(* mutant: the revenue counter is added to without the overflow check *)
PurchaseBallsError_Unchecked(player, ball_type, quantity) ==
    IF ball_type >= NUM_BALL_TYPES THEN "InvalidBallType"
    ELSE IF quantity = 0 THEN "ZeroQuantity"
    ELSE IF CostOverflows(game_config.ball_prices[ball_type], quantity) THEN "MathOverflow"
    ELSE IF U64Less(MAX_PURCHASE_AMOUNT, game_config.ball_prices[ball_type] * quantity)
    THEN "PurchaseExceedsMax"
    ELSE IF U64Less(treasury.player_token_account[player],
                    game_config.ball_prices[ball_type] * quantity)
    THEN "InsufficientSolBalls"
    ELSE IF U32AddOverflows(player_inventory[player].balls[ball_type], quantity)
    THEN "MathOverflow"
    ELSE IF U64AddOverflows(player_inventory[player].total_purchased, quantity)
    THEN "MathOverflow"
    ELSE "Ok"

(* the checks of the handler in their order: ball type, quantity, the cost in
   u128 against u64::MAX, the cap on one purchase, the player's balance, and
   the checked additions to balls, total_purchased and total_revenue *)
PurchaseBallsError(player, ball_type, quantity) ==
    IF ball_type >= NUM_BALL_TYPES THEN "InvalidBallType"
    ELSE IF quantity = 0 THEN "ZeroQuantity"
    ELSE IF CostOverflows(game_config.ball_prices[ball_type], quantity) THEN "MathOverflow"
    ELSE IF U64Less(MAX_PURCHASE_AMOUNT, game_config.ball_prices[ball_type] * quantity)
    THEN "PurchaseExceedsMax"
    ELSE IF U64Less(treasury.player_token_account[player],
                    game_config.ball_prices[ball_type] * quantity)
    THEN "InsufficientSolBalls"
    ELSE IF U32AddOverflows(player_inventory[player].balls[ball_type], quantity)
    THEN "MathOverflow"
    ELSE IF U64AddOverflows(player_inventory[player].total_purchased, quantity)
    THEN "MathOverflow"
    ELSE IF U64AddOverflows(game_config.total_revenue,
                            game_config.ball_prices[ball_type] * quantity)
    THEN "MathOverflow"
    ELSE "Ok"

PurchaseBalls(player, ball_type, quantity) ==
    /\ game_config.is_initialized
    /\ IF PurchaseBallsError(player, ball_type, quantity) # "Ok"
       THEN UNCHANGED vars
       ELSE LET total_cost == game_config.ball_prices[ball_type] * quantity
                inv == player_inventory[player]
            IN /\ player_inventory' = [player_inventory EXCEPT ![player] =
                      [inv EXCEPT !.player = player,
                                  !.balls[ball_type] = @ + quantity,
                                  !.total_purchased = @ + quantity]]
               /\ game_config' = [game_config EXCEPT !.total_revenue = @ + total_cost]
               /\ treasury' = [treasury EXCEPT
                                  !.player_token_account[player] = @ - total_cost,
                                  !.game_solballs_account = @ + total_cost]
               /\ last' = Outcome("purchase_balls")
               /\ UNCHANGED <<pokemon_slots, nft_vault, vault_nft_account, vrf_requests,
                              vrf_randomness, history>>

(* ---------------- spawn_pokemon (request) ---------------- *)
(* the VrfRequest account written by a request instruction *)
NewRequest(request_type, player, slot_index, ball_type, seed) ==
    [exists |-> TRUE, request_type |-> request_type, player |-> player,
     slot_index |-> slot_index, ball_type |-> ball_type, seed |-> seed,
     is_fulfilled |-> FALSE]

(* the VrfRequest accounts after the account at the PDA seeded with counter
   has been written: whatever stood at that address is replaced *)
StoreRequest(requests, counter, request) ==
    [k \in DOMAIN requests \cup {counter} |->
        IF k = counter THEN request ELSE requests[k]]

(* #[account(init, seeds = [VRF_REQ_SEED, vrf_counter])]: the account at the
   PDA of the current vrf_counter must not exist yet *)
RequestAccountInUse == game_config.vrf_counter \in DOMAIN vrf_requests

(* mutant: the cap on active Pokemon is not checked at the request *)
SpawnPokemonError_NoCap(slot_index) ==
    IF RequestAccountInUse THEN "AccountAlreadyInUse"
    ELSE IF slot_index >= MAX_POKEMON_SLOTS THEN "InvalidSlotIndex"
    ELSE IF pokemon_slots.slots[slot_index].is_active THEN "SlotAlreadyOccupied"
    ELSE "Ok"

(* the init of the vrf_request account, then the handler's checks *)
SpawnPokemonError(slot_index) ==
    IF RequestAccountInUse THEN "AccountAlreadyInUse"
    ELSE IF slot_index >= MAX_POKEMON_SLOTS THEN "InvalidSlotIndex"
    ELSE IF pokemon_slots.slots[slot_index].is_active THEN "SlotAlreadyOccupied"
    ELSE IF ~(pokemon_slots.active_count < game_config.max_active_pokemon)
    THEN "MaxActivePokemonReached"
    ELSE IF U64AddOverflows(game_config.vrf_counter, 1) THEN "MathOverflow"
    ELSE "Ok"

SpawnPokemon(slot_index) ==
    /\ game_config.is_initialized
    /\ IF SpawnPokemonError(slot_index) # "Ok"
       THEN UNCHANGED vars
       ELSE LET seed == make_vrf_seed(game_config.vrf_counter, VRF_TYPE_SPAWN)
            IN /\ vrf_randomness' =
                     vrf_randomness @@ (seed :> [state |-> "pending", randomness |-> ZeroRand])
               /\ vrf_requests' = StoreRequest(vrf_requests, game_config.vrf_counter,
                                      NewRequest(VRF_TYPE_SPAWN, Authority, slot_index, 0, seed))
               /\ consumed' = consumed @@ (game_config.vrf_counter :> 0)
               /\ rejected' = rejected @@ (game_config.vrf_counter :> {})
               /\ game_config' = [game_config EXCEPT !.vrf_counter = @ + 1]
               /\ last' = [Outcome("spawn_pokemon") EXCEPT !.req = game_config.vrf_counter]
               /\ UNCHANGED <<treasury, pokemon_slots, nft_vault, vault_nft_account, player_inventory,
                              deposits, awards, reads, since_award>>

(* ---------------- throw_ball (request) ---------------- *)
ThrowBallError(player, slot_index, ball_type) ==
    IF RequestAccountInUse THEN "AccountAlreadyInUse"
    ELSE IF slot_index >= MAX_POKEMON_SLOTS THEN "InvalidSlotIndex"
    ELSE IF ball_type >= NUM_BALL_TYPES THEN "InvalidBallType"
    ELSE IF ~pokemon_slots.slots[slot_index].is_active THEN "SlotNotActive"
    ELSE IF pokemon_slots.slots[slot_index].throw_attempts >= MAX_THROW_ATTEMPTS
    THEN "MaxAttemptsReached"
    ELSE IF player_inventory[player].balls[ball_type] = 0 THEN "InsufficientBalls"
    ELSE IF U64AddOverflows(game_config.vrf_counter, 1) THEN "MathOverflow"
    ELSE "Ok"

ThrowBall(player, slot_index, ball_type) ==
    /\ game_config.is_initialized
    /\ player_inventory[player].player = player
    /\ IF ThrowBallError(player, slot_index, ball_type) # "Ok"
       THEN UNCHANGED vars
       ELSE LET seed == make_vrf_seed(game_config.vrf_counter, VRF_TYPE_THROW)
            IN /\ player_inventory' = [player_inventory EXCEPT
                                          ![player].balls[ball_type] = @ - 1,
                                          ![player].total_throws = @ + 1]
               /\ vrf_randomness' =
                     vrf_randomness @@ (seed :> [state |-> "pending", randomness |-> ZeroRand])
               /\ vrf_requests' = StoreRequest(vrf_requests, game_config.vrf_counter,
                                      NewRequest(VRF_TYPE_THROW, player, slot_index, ball_type, seed))
               /\ consumed' = consumed @@ (game_config.vrf_counter :> 0)
               /\ rejected' = rejected @@ (game_config.vrf_counter :> {})
               /\ game_config' = [game_config EXCEPT !.vrf_counter = @ + 1]
               /\ last' = [Outcome("throw_ball") EXCEPT !.req = game_config.vrf_counter]
               /\ UNCHANGED <<treasury, pokemon_slots, nft_vault, vault_nft_account, deposits, awards,
                              reads, since_award>>

(* ---------------- the oracle ---------------- *)
OracleFulfill(c, r) ==
    /\ vrf_requests[c].exists
    /\ vrf_randomness[vrf_requests[c].seed].state = "pending"
    /\ vrf_randomness' = [vrf_randomness EXCEPT ![vrf_requests[c].seed] =
                             [state |-> "fulfilled", randomness |-> r]]
    /\ last' = [Outcome("oracle_fulfill") EXCEPT !.req = c]
    /\ UNCHANGED <<treasury, game_config, pokemon_slots, nft_vault, vault_nft_account, vrf_requests,
                   player_inventory, history>>

(* ---------------- force_spawn_pokemon ---------------- *)
(* the slot record written when a Pokemon is spawned *)
(* mutant: the slot is given the counter's value before the increment *)
SpawnedSlot_StaleId(pokemon_id, pos_x, pos_y, now) ==
    [is_active |-> TRUE, pokemon_id |-> pokemon_id - 1, pos_x |-> pos_x, pos_y |-> pos_y,
     throw_attempts |-> 0, spawn_timestamp |-> now]

SpawnedSlot(pokemon_id, pos_x, pos_y, now) ==
    [is_active |-> TRUE, pokemon_id |-> pokemon_id, pos_x |-> pos_x, pos_y |-> pos_y,
     throw_attempts |-> 0, spawn_timestamp |-> now]

(* mutant: only pos_x is validated *)
ForceSpawnPokemonError_XOnly(slot_index, pos_x, pos_y) ==
    IF slot_index >= MAX_POKEMON_SLOTS THEN "InvalidSlotIndex"
    ELSE IF pos_x > MAX_COORDINATE THEN "InvalidCoordinate"
    ELSE IF pokemon_slots.slots[slot_index].is_active THEN "SlotAlreadyOccupied"
    ELSE IF ~(pokemon_slots.active_count < game_config.max_active_pokemon)
    THEN "MaxActivePokemonReached"
    ELSE IF U64AddOverflows(game_config.pokemon_id_counter, 1) THEN "MathOverflow"
    ELSE "Ok"

ForceSpawnPokemonError(slot_index, pos_x, pos_y) ==
    IF slot_index >= MAX_POKEMON_SLOTS THEN "InvalidSlotIndex"
    ELSE IF pos_x > MAX_COORDINATE \/ pos_y > MAX_COORDINATE THEN "InvalidCoordinate"
    ELSE IF pokemon_slots.slots[slot_index].is_active THEN "SlotAlreadyOccupied"
    ELSE IF ~(pokemon_slots.active_count < game_config.max_active_pokemon)
    THEN "MaxActivePokemonReached"
    ELSE IF U64AddOverflows(game_config.pokemon_id_counter, 1) THEN "MathOverflow"
    ELSE IF pokemon_slots.active_count + 1 > U8Max THEN "MathOverflow"
    ELSE "Ok"

ForceSpawnPokemon(slot_index, pos_x, pos_y, now) ==
    /\ game_config.is_initialized
    /\ IF ForceSpawnPokemonError(slot_index, pos_x, pos_y) # "Ok"
       THEN UNCHANGED vars
       ELSE LET pokemon_id == game_config.pokemon_id_counter + 1
            IN /\ game_config' = [game_config EXCEPT !.pokemon_id_counter = pokemon_id]
               /\ pokemon_slots' = [pokemon_slots EXCEPT
                     !.slots[slot_index] = SpawnedSlot(pokemon_id, pos_x, pos_y, now),
                     !.active_count = @ + 1]
               /\ last' = Outcome("force_spawn_pokemon")
               /\ UNCHANGED <<treasury, nft_vault, vault_nft_account, vrf_requests, vrf_randomness,
                              player_inventory, history>>

(* ---------------- despawn_pokemon ---------------- *)
(* slots[idx] = PokemonSlot::default(); active_count.saturating_sub(1) *)
ClearSlot(ps, idx) ==
    [ps EXCEPT !.slots[idx] = DefaultSlot, !.active_count = SatSub1(@)]

DespawnPokemonError(slot_index) ==
    IF slot_index >= MAX_POKEMON_SLOTS THEN "InvalidSlotIndex"
    ELSE IF ~pokemon_slots.slots[slot_index].is_active THEN "SlotNotActive"
    ELSE "Ok"

DespawnPokemon(slot_index) ==
    /\ game_config.is_initialized
    /\ IF DespawnPokemonError(slot_index) # "Ok"
       THEN UNCHANGED vars
       ELSE /\ pokemon_slots' = ClearSlot(pokemon_slots, slot_index)
            /\ last' = Outcome("despawn_pokemon")
            /\ UNCHANGED <<treasury, game_config, nft_vault, vault_nft_account, vrf_requests,
                           vrf_randomness, player_inventory, history>>

(* ---------------- reposition_pokemon ---------------- *)
RepositionPokemonError(slot_index, new_pos_x, new_pos_y) ==
    IF slot_index >= MAX_POKEMON_SLOTS THEN "InvalidSlotIndex"
    ELSE IF new_pos_x > MAX_COORDINATE \/ new_pos_y > MAX_COORDINATE THEN "InvalidCoordinate"
    ELSE IF ~pokemon_slots.slots[slot_index].is_active THEN "SlotNotActive"
    ELSE "Ok"

RepositionPokemon(slot_index, new_pos_x, new_pos_y) ==
    /\ game_config.is_initialized
    /\ IF RepositionPokemonError(slot_index, new_pos_x, new_pos_y) # "Ok"
       THEN UNCHANGED vars
       ELSE /\ pokemon_slots' = [pokemon_slots EXCEPT
                  !.slots[slot_index].pos_x = new_pos_x,
                  !.slots[slot_index].pos_y = new_pos_y,
                  !.slots[slot_index].throw_attempts = 0]
            /\ last' = Outcome("reposition_pokemon")
            /\ UNCHANGED <<treasury, game_config, nft_vault, vault_nft_account, vrf_requests,
                           vrf_randomness, player_inventory, history>>

(* ---------------- deposit_nft ---------------- *)
RECURSIVE SumOver(_, _)
SumOver(f, S) == IF S = {} THEN 0
                 ELSE LET x == CHOOSE y \in S : TRUE IN f[x] + SumOver(f, S \ {x})

(* mints[count] = mint; count += 1 *)
VaultAppend(vault, mint) ==
    [vault EXCEPT !.mints[vault.count] = mint, !.count = @ + 1]

(* mutant: the capacity check admits one deposit more *)
DepositNftError_OffByOne(nft_mint) ==
    IF ~(nft_vault.count <= nft_vault.max_size) THEN "VaultFull" ELSE "Ok"

(* the vault's capacity, then the write to mints[count], which panics
   outside the array, then count.checked_add(1) on a u8 *)
DepositNftError(nft_mint) ==
    IF ~(nft_vault.count < nft_vault.max_size) THEN "VaultFull"
    ELSE IF ~(nft_vault.count < MAX_POKEMON_SLOTS) THEN "IndexOutOfBounds"
    ELSE IF nft_vault.count + 1 > U8Max THEN "MathOverflow"
    ELSE "Ok"

DepositNft(nft_mint) ==
    /\ game_config.is_initialized
    /\ IF DepositNftError(nft_mint) # "Ok"
       THEN UNCHANGED vars
       ELSE /\ nft_vault' = VaultAppend(nft_vault, nft_mint)
            /\ vault_nft_account' = [vault_nft_account EXCEPT ![nft_mint] = @ + 1]
            /\ deposits' = [deposits EXCEPT ![nft_mint] = @ + 1]
            /\ since_award' = [since_award EXCEPT ![nft_mint] = FALSE]
            /\ last' = Outcome("deposit_nft")
            /\ UNCHANGED <<treasury, game_config, pokemon_slots, vrf_requests, vrf_randomness,
                           player_inventory, awards, consumed, reads, rejected>>

(* ---------------- withdraw_nft ---------------- *)
(* mutant: the last entry is dropped whatever the index *)
WithdrawRemove_DropsLast(vault, idx) ==
    [vault EXCEPT !.mints[vault.count - 1] = DefaultPubkey, !.count = SatSub1(@)]

(* swap-and-pop removal of mints[idx] *)
WithdrawRemove(vault, idx) ==
    LET last_idx == vault.count - 1
        moved == IF idx # last_idx
                 THEN [vault.mints EXCEPT ![idx] = vault.mints[last_idx]]
                 ELSE vault.mints
    IN [vault EXCEPT !.mints = [moved EXCEPT ![last_idx] = DefaultPubkey],
                     !.count = SatSub1(@)]

(* indexes passed to withdraw_nft *)
IndexInputs == {0, 1, 20}

(* The account constraint vault_nft_account.mint == nft_vault.mints[nft_index]
   is evaluated before the handler: the array access panics for an index
   outside the array, and no token account has the default key as its mint. *)
WithdrawNftError(nft_index) ==
    IF nft_index >= MAX_POKEMON_SLOTS THEN "ProgramFailedToComplete"
    ELSE IF nft_vault.mints[nft_index] = DefaultPubkey THEN "ConstraintRaw"
    ELSE IF vault_nft_account[nft_vault.mints[nft_index]] # 1 THEN "ConstraintRaw"
    ELSE IF ~(nft_index < nft_vault.count) THEN "InvalidNftIndex"
    ELSE "Ok"

WithdrawNft(nft_index) ==
    /\ game_config.is_initialized
    /\ IF WithdrawNftError(nft_index) # "Ok"
       THEN UNCHANGED vars
       ELSE /\ nft_vault' = WithdrawRemove(nft_vault, nft_index)
            /\ vault_nft_account' =
                  [vault_nft_account EXCEPT ![nft_vault.mints[nft_index]] = @ - 1]
            /\ last' = Outcome("withdraw_nft")
            /\ UNCHANGED <<treasury, game_config, pokemon_slots, vrf_requests, vrf_randomness,
                           player_inventory, history>>

(* ---------------- consume_randomness ---------------- *)
(* mutant: the constraint on vrf_request is left out *)
ConsumeAllowed_NoConstraint(req) == TRUE

(* constraint = !vrf_request.is_fulfilled @ VrfAlreadyFulfilled *)
ConsumeAllowed(req) == ~req.is_fulfilled

(* mutant: consuming a Request also clears the player it records *)
MarkFulfilled_ClearsPlayer(req) ==
    [req EXCEPT !.is_fulfilled = TRUE, !.player = DefaultPubkey]

(* vrf_request.is_fulfilled = true *)
MarkFulfilled(req) == [req EXCEPT !.is_fulfilled = TRUE]

(* mutant: the rate the game was initialised with *)
CatchRate_Initial(ball_type) == DEFAULT_CATCH_RATES[ball_type]

(* game_config.catch_rates[ball_type], read when the throw is consumed *)
CatchRate(ball_type) == game_config.catch_rates[ball_type]

(* caught = catch_roll < catch_rate *)
(* mutant: inclusive comparison *)
Caught_Inclusive(r, catch_rate) == CatchRoll(r) <= catch_rate

Caught(r, catch_rate) == CatchRoll(r) < catch_rate

(* mutant: the vacated last entry is not reset to the default key *)
AwardRemove_NoClear(vault, nft_index) ==
    LET last_idx == vault.count - 1
    IN [vault EXCEPT !.mints[nft_index] = vault.mints[last_idx],
                     !.count = SatSub1(@)]

(* mutant: the award leaves the vault as it was (removal deferred to the transfer) *)
AwardRemove_NoRemoval(vault, nft_index) == vault

(* removal of the awarded mint from the vault, before any transfer *)
AwardRemove(vault, nft_index) ==
    LET last_idx == vault.count - 1
        moved == IF nft_index # last_idx
                 THEN [vault.mints EXCEPT ![nft_index] = vault.mints[last_idx]]
                 ELSE vault.mints
    IN [vault EXCEPT !.mints = [moved EXCEPT ![last_idx] = DefaultPubkey],
                     !.count = SatSub1(@)]

(* mutant: every miss refreshes the spawn timestamp *)
MissSlot_Touch(slot, r) ==
    IF slot.throw_attempts + 1 >= MAX_THROW_ATTEMPTS
    THEN [slot EXCEPT !.pos_x = RelocPosX(r), !.pos_y = RelocPosY(r), !.throw_attempts = 0]
    ELSE [slot EXCEPT !.throw_attempts = @ + 1, !.spawn_timestamp = @ + 1]

(* mutant: the relocation comes one miss early *)
MissSlot_EarlyRelocation(slot, r) ==
    LET throw_attempts == slot.throw_attempts + 1
    IN IF throw_attempts >= MAX_THROW_ATTEMPTS - 1
       THEN [slot EXCEPT !.pos_x = RelocPosX(r), !.pos_y = RelocPosY(r),
                         !.throw_attempts = 0]
       ELSE [slot EXCEPT !.throw_attempts = throw_attempts]

(* the slot after a miss: one more attempt, relocation when the budget is used up *)
MissSlot(slot, r) ==
    LET throw_attempts == slot.throw_attempts + 1
    IN IF throw_attempts >= MAX_THROW_ATTEMPTS
       THEN [slot EXCEPT !.pos_x = RelocPosX(r), !.pos_y = RelocPosY(r),
                         !.throw_attempts = 0]
       ELSE [slot EXCEPT !.throw_attempts = throw_attempts]

(* what the caller put in remaining_accounts for the awarded mint:
   no group, a well-formed group, a group whose token accounts are not owned
   by the token program, a group on which token::transfer fails *)
TransferInputs == {"none", "valid", "bad_owner", "transfer_fails"}

(* a group led by the awarded mint whose second and third accounts are the
   vault's and the payer's token accounts of mint m: only the first key of a
   group is compared with the awarded mint *)
CrossAccounts == [m \in 1..3 |-> CASE m = 1 -> "cross:1" [] m = 2 -> "cross:2"
                                      [] OTHER -> "cross:3"]
CrossInputs == {CrossAccounts[m] : m \in DepositInputs \cap DOMAIN CrossAccounts}

(* the same, a well-formed group whose third account is a token account of
   the payer instead of the player, and the groups of CrossInputs *)
AwardTransferInputs == TransferInputs \cup {"valid_other"} \cup CrossInputs

(* the group found for the awarded mint passes the owner checks *)
TransferFound(xfer) == xfer \in {"valid", "valid_other"} \cup CrossInputs

(* the mint of the vault token account that token::transfer debits:
   remaining[i * 3 + 1], whatever the caller put there *)
TransferSource(awarded_mint, xfer) ==
    IF xfer \in CrossInputs
    THEN CHOOSE m \in DOMAIN CrossAccounts : CrossAccounts[m] = xfer
    ELSE awarded_mint

(* the wallet owning the token account that token::transfer credits:
   remaining[i * 3 + 2], whatever the caller put there *)
TransferRecipient(req, xfer) ==
    IF xfer \in {"valid_other"} \cup CrossInputs THEN Cranker ELSE req.player

(* mutant: a missing account group is an error *)
TransferError_Required(xfer) ==
    IF xfer \in {"none", "bad_owner"} THEN "NftTransferAccountsMissing"
    ELSE IF xfer = "transfer_fails" THEN "TokenTransferFailed"
    ELSE "Ok"

(* mutant: a group that fails the owner checks is skipped like a missing one *)
TransferError_SkipsBadOwner(xfer) ==
    IF xfer = "transfer_fails" THEN "TokenTransferFailed"
    ELSE "Ok"

(* the error of the award's transfer step, for the accounts supplied *)
TransferError(xfer) ==
    IF xfer = "bad_owner" THEN "NftTransferAccountsMissing"
    ELSE IF xfer = "transfer_fails" THEN "TokenTransferFailed"
    ELSE "Ok"

(* mutant: the asset leaves the vault's list only when it is transferred *)
AwardVault_WhenTransferred(vault, nft_index, xfer) ==
    IF TransferFound(xfer) THEN AwardRemove(vault, nft_index) ELSE vault

(* the vault after an award: the entry is removed before remaining_accounts
   are searched, whatever they hold *)
AwardVault(vault, nft_index, xfer) == AwardRemove(vault, nft_index)

(* mutant: the consume repeats the capacity check of the request *)
handle_spawn_error_Recheck(req) ==
    IF req.slot_index >= MAX_POKEMON_SLOTS THEN "InvalidSlotIndex"
    ELSE IF ~(pokemon_slots.active_count < game_config.max_active_pokemon)
    THEN "MaxActivePokemonReached"
    ELSE "Ok"

(* pokemon_id_counter.checked_add(1) on a u64, then active_count.checked_add(1)
   on a u8 *)
handle_spawn_error(req) ==
    IF req.slot_index >= MAX_POKEMON_SLOTS THEN "InvalidSlotIndex"
    ELSE IF U64AddOverflows(game_config.pokemon_id_counter, 1) THEN "MathOverflow"
    ELSE IF pokemon_slots.active_count + 1 > U8Max THEN "MathOverflow"
    ELSE "Ok"

(* the award's transfer step where a catch finds the vault stocked *)
AwardError(r, xfer) ==
    IF ~(nft_vault.count > 0) THEN "Ok"
    ELSE IF TransferError(xfer) # "Ok" THEN TransferError(xfer)
    ELSE IF /\ TransferFound(xfer)
            /\ vault_nft_account[TransferSource(
                   nft_vault.mints[NftIndex(r, nft_vault.count)], xfer)] = 0
    THEN "TokenTransferFailed"
    ELSE "Ok"

(* on a catch the award, then total_catches.checked_add(1) on the inventory
   passed, if one is; on a miss throw_attempts.checked_add(1) on a u8 *)
handle_throw_error(req, r, inv, xfer) ==
    IF req.slot_index >= MAX_POKEMON_SLOTS THEN "InvalidSlotIndex"
    ELSE IF req.ball_type >= NUM_BALL_TYPES THEN "InvalidBallType"
    ELSE IF Caught(r, game_config.catch_rates[req.ball_type])
    THEN IF AwardError(r, xfer) # "Ok" THEN AwardError(r, xfer)
         ELSE IF inv # 0 /\ U64AddOverflows(player_inventory[inv].total_catches, 1)
         THEN "MathOverflow"
         ELSE "Ok"
    ELSE IF pokemon_slots.slots[req.slot_index].throw_attempts + 1 > U8Max
    THEN "MathOverflow"
    ELSE "Ok"

(* mutant: the oracle's record is read without checking that it is fulfilled *)
ConsumeRandomnessError_NoReadyCheck(c, inv, xfer) ==
    LET req == vrf_requests[c]
        rnd == vrf_randomness[req.seed]
    IN IF ~ConsumeAllowed(req) THEN "VrfAlreadyFulfilled"
       ELSE IF req.request_type = VRF_TYPE_SPAWN THEN handle_spawn_error(req)
       ELSE IF req.request_type = VRF_TYPE_THROW
       THEN handle_throw_error(req, rnd.randomness, inv, xfer)
       ELSE "InvalidVrfRequestType"

(* the error consume_randomness returns for request account c *)
ConsumeRandomnessError(c, inv, xfer) ==
    LET req == vrf_requests[c]
        rnd == vrf_randomness[req.seed]
    IN IF ~ConsumeAllowed(req) THEN "VrfAlreadyFulfilled"
       ELSE IF rnd.state # "fulfilled" THEN "VrfNotFulfilled"
       ELSE IF req.request_type = VRF_TYPE_SPAWN THEN handle_spawn_error(req)
       ELSE IF req.request_type = VRF_TYPE_THROW
       THEN handle_throw_error(req, rnd.randomness, inv, xfer)
       ELSE "InvalidVrfRequestType"

handle_spawn(c, req, r, now) ==
    LET slot_idx == req.slot_index
        pokemon_id == game_config.pokemon_id_counter + 1
    IN /\ game_config' = [game_config EXCEPT !.pokemon_id_counter = pokemon_id]
       /\ pokemon_slots' = [pokemon_slots EXCEPT
             !.slots[slot_idx] = SpawnedSlot(pokemon_id, SpawnPosX(r), SpawnPosY(r), now),
             !.active_count = @ + 1]
       /\ vrf_requests' = [vrf_requests EXCEPT ![c] = MarkFulfilled(req)]
       /\ consumed' = [consumed EXCEPT ![c] = @ + 1]
       /\ reads' = [reads EXCEPT !["spawn_pos"] = @ \cup SpawnPosBytes]
       /\ last' = [Outcome("consume_randomness") EXCEPT
                      !.req = c,
                      !.reads = [NoReads EXCEPT !["spawn_pos"] = SpawnPosBytes]]
       /\ UNCHANGED <<treasury, nft_vault, vault_nft_account, vrf_randomness, player_inventory, deposits,
                      awards, since_award, rejected>>

handle_throw(c, req, r, inv, xfer) ==
    LET slot_idx == req.slot_index
        catch_rate == CatchRate(req.ball_type)
        caught == Caught(r, catch_rate)
        has_nft == nft_vault.count > 0
        nft_index == NftIndex(r, nft_vault.count)
        awarded_mint == IF has_nft THEN nft_vault.mints[nft_index] ELSE DefaultPubkey
        slot == pokemon_slots.slots[slot_idx]
        relocated == slot.throw_attempts + 1 >= MAX_THROW_ATTEMPTS
        rd == [NoReads EXCEPT
                  !["catch_roll"] = CatchRollBytes,
                  !["nft_index"] = IF caught /\ has_nft THEN NftIndexBytes ELSE {},
                  !["reloc_pos"] = IF ~caught /\ relocated THEN RelocPosBytes ELSE {}]
    IN IF caught
       THEN /\ nft_vault' = IF has_nft THEN AwardVault(nft_vault, nft_index, xfer)
                            ELSE nft_vault
            /\ awards' = IF has_nft THEN [awards EXCEPT ![awarded_mint] = @ + 1]
                         ELSE awards
            /\ since_award' = IF has_nft THEN [since_award EXCEPT ![awarded_mint] = TRUE]
                              ELSE since_award
            /\ vault_nft_account' =
                  IF has_nft /\ TransferFound(xfer)
                  THEN [vault_nft_account EXCEPT
                           ![TransferSource(awarded_mint, xfer)] = @ - 1]
                  ELSE vault_nft_account
            /\ player_inventory' =
                  IF inv # 0
                  THEN [player_inventory EXCEPT ![inv].total_catches = @ + 1]
                  ELSE player_inventory
            /\ pokemon_slots' = ClearSlot(pokemon_slots, slot_idx)
            /\ vrf_requests' = [vrf_requests EXCEPT ![c] = MarkFulfilled(req)]
            /\ consumed' = [consumed EXCEPT ![c] = @ + 1]
            /\ reads' = [d \in Decisions |-> reads[d] \cup rd[d]]
            /\ last' = [Outcome("consume_randomness") EXCEPT
                           !.req = c, !.caught = TRUE,
                           !.awarded = awarded_mint,
                           !.transferred = has_nft /\ TransferFound(xfer),
                           !.recipient = IF has_nft /\ TransferFound(xfer)
                                         THEN TransferRecipient(req, xfer)
                                         ELSE DefaultPubkey,
                           !.reads = rd]
            /\ UNCHANGED <<treasury, game_config, vrf_randomness, deposits, rejected>>
       ELSE /\ pokemon_slots' = [pokemon_slots EXCEPT !.slots[slot_idx] = MissSlot(slot, r)]
            /\ vrf_requests' = [vrf_requests EXCEPT ![c] = MarkFulfilled(req)]
            /\ consumed' = [consumed EXCEPT ![c] = @ + 1]
            /\ reads' = [d \in Decisions |-> reads[d] \cup rd[d]]
            /\ last' = [Outcome("consume_randomness") EXCEPT
                           !.req = c, !.relocated = relocated, !.reads = rd]
            /\ UNCHANGED <<treasury, game_config, nft_vault, vault_nft_account, vrf_randomness,
                           player_inventory, deposits, awards, since_award, rejected>>

ConsumeRandomness(c, inv, xfer, now) ==
    /\ vrf_requests[c].exists
    /\ inv # 0 => player_inventory[inv].player = inv
    /\ IF ConsumeRandomnessError(c, inv, xfer) # "Ok"
       THEN UNCHANGED vars
       ELSE IF vrf_requests[c].request_type = VRF_TYPE_SPAWN
       THEN handle_spawn(c, vrf_requests[c], vrf_randomness[vrf_requests[c].seed].randomness, now)
       ELSE handle_throw(c, vrf_requests[c], vrf_randomness[vrf_requests[c].seed].randomness,
                         inv, xfer)

(* ---------------- admin: set_ball_price, set_catch_rate, set_max_active_pokemon ---- *)
(* prices, rates and caps passed to the setters; 0, 101 and 0, 21 are rejected *)
NewPriceInputs == {0, 7}
NewRateInputs == {0, 50, 101}
NewMaxInputs == {0, 1, MAX_POKEMON_SLOTS + 1}

SetBallPriceError(ball_type, new_price) ==
    IF ball_type >= NUM_BALL_TYPES THEN "InvalidBallType"
    ELSE IF new_price = 0 THEN "ZeroBallPrice"
    ELSE "Ok"

SetBallPrice(ball_type, new_price) ==
    /\ game_config.is_initialized
    /\ IF SetBallPriceError(ball_type, new_price) # "Ok"
       THEN UNCHANGED vars
       ELSE /\ game_config' = [game_config EXCEPT !.ball_prices[ball_type] = new_price]
            /\ last' = Outcome("set_ball_price")
            /\ UNCHANGED <<treasury, pokemon_slots, nft_vault, vault_nft_account, vrf_requests,
                           vrf_randomness, player_inventory, history>>

SetCatchRateError(ball_type, new_rate) ==
    IF ball_type >= NUM_BALL_TYPES THEN "InvalidBallType"
    ELSE IF ~(new_rate <= 100) THEN "InvalidCatchRate"
    ELSE "Ok"

SetCatchRate(ball_type, new_rate) ==
    /\ game_config.is_initialized
    /\ IF SetCatchRateError(ball_type, new_rate) # "Ok"
       THEN UNCHANGED vars
       ELSE /\ game_config' = [game_config EXCEPT !.catch_rates[ball_type] = new_rate]
            /\ last' = Outcome("set_catch_rate")
            /\ UNCHANGED <<treasury, pokemon_slots, nft_vault, vault_nft_account, vrf_requests,
                           vrf_randomness, player_inventory, history>>

SetMaxActivePokemonError(new_max) ==
    IF ~(new_max >= 1 /\ new_max <= MAX_POKEMON_SLOTS) THEN "InvalidMaxActivePokemon"
    ELSE "Ok"

(* mutant: lowering the cap also recounts the active Pokemon as the cap *)
SetMaxActivePokemon_Recount(new_max) ==
    /\ game_config.is_initialized
    /\ IF SetMaxActivePokemonError(new_max) # "Ok"
       THEN UNCHANGED vars
       ELSE /\ game_config' = [game_config EXCEPT !.max_active_pokemon = new_max]
            /\ pokemon_slots' = [pokemon_slots EXCEPT !.active_count = new_max]
            /\ last' = Outcome("set_max_active_pokemon")
            /\ UNCHANGED <<treasury, nft_vault, vault_nft_account, vrf_requests,
                           vrf_randomness, player_inventory, history>>

SetMaxActivePokemon(new_max) ==
    /\ game_config.is_initialized
    /\ IF SetMaxActivePokemonError(new_max) # "Ok"
       THEN UNCHANGED vars
       ELSE /\ game_config' = [game_config EXCEPT !.max_active_pokemon = new_max]
            /\ last' = Outcome("set_max_active_pokemon")
            /\ UNCHANGED <<treasury, pokemon_slots, nft_vault, vault_nft_account, vrf_requests,
                           vrf_randomness, player_inventory, history>>

(* ---------------- withdraw_revenue ---------------- *)
(* amounts passed to withdraw_revenue: nothing, the price of one ball, more
   than the game account can hold in the model *)
AmountInputs == {0, DEFAULT_BALL_PRICES[0], 2 * MaxPurchased * DEFAULT_BALL_PRICES[3]}

(* mutant: total_withdrawn is added to without the overflow check *)
WithdrawRevenueError_Unchecked(amount) ==
    IF amount = 0 THEN "InsufficientWithdrawalAmount"
    ELSE IF U64Less(treasury.game_solballs_account, amount)
    THEN "InsufficientWithdrawalAmount"
    ELSE "Ok"

(* the amount, the balance of the game account, and after the transfer
   total_withdrawn.checked_add(amount) *)
WithdrawRevenueError(amount) ==
    IF amount = 0 THEN "InsufficientWithdrawalAmount"
    ELSE IF U64Less(treasury.game_solballs_account, amount)
    THEN "InsufficientWithdrawalAmount"
    ELSE IF U64AddOverflows(treasury.total_withdrawn, amount) THEN "MathOverflow"
    ELSE "Ok"

WithdrawRevenue(amount) ==
    /\ game_config.is_initialized
    /\ IF WithdrawRevenueError(amount) # "Ok"
       THEN UNCHANGED vars
       ELSE /\ treasury' = [treasury EXCEPT !.game_solballs_account = @ - amount,
                                            !.total_withdrawn = @ + amount]
            /\ last' = Outcome("withdraw_revenue")
            /\ UNCHANGED <<game_config, pokemon_slots, nft_vault, vault_nft_account,
                           vrf_requests, vrf_randomness, player_inventory, history>>

(* ---------------- the system ---------------- *)
(* the guards that keep the counters within the bounds of the model *)
MayRequest == game_config.vrf_counter < MaxRequests
MayThrow == game_config.vrf_counter < MaxThrows
MaySpawn == game_config.pokemon_id_counter < MaxPokemonId
MayDeposit == SumOver(deposits, Mints) < MaxDeposits
MayPurchase(pl, q) == player_inventory[pl].total_purchased + q <= MaxPurchased

(* Spec: the slot registry under requests, consumes and the authority's
   overrides, on two slots; the vault stays empty. *)
Next ==
    \/ \E sm \in MintArgInputs, p \in PriceInputs, cr \in RateInputs : Initialize(sm, p, cr)
    \/ \E pl \in Players, b \in BallInputs, q \in QuantityInputs :
          MayPurchase(pl, q) /\ PurchaseBalls(pl, b, q)
    \/ \E s \in SlotInputs : MayRequest /\ SpawnPokemon(s)
    \/ \E pl \in Players, s \in SlotInputs, b \in BallInputs :
          MayRequest /\ ThrowBall(pl, s, b)
    \/ \E c \in RequestIds, r \in SpawnRandomnessInputs : OracleFulfill(c, r)
    \/ \E c \in RequestIds, inv \in {0} \cup Players, x \in TransferInputs, t \in Timestamps :
          ConsumeRandomness(c, inv, x, t)
    \/ \E s \in SlotInputs, x \in CoordInputs, y \in CoordInputs, t \in Timestamps :
          MaySpawn /\ ForceSpawnPokemon(s, x, y, t)
    \/ \E s \in SlotInputs : DespawnPokemon(s)
    \/ \E s \in SlotInputs, x \in CoordInputs, y \in CoordInputs : RepositionPokemon(s, x, y)

Spec == Init /\ [][Next]_vars

(* SpecVault: the vault under deposits, withdrawals and the awards of throw
   consumes, with one slot that is spawned by request or by the authority,
   up to two Requests and two deposits; the full vault is the subject of
   SpecFill and the relocation after three misses that of SpecReads and
   SpecThrow. *)
NextVault ==
    \/ \E sm \in MintArgInputs, p \in PriceInputs, cr \in RateInputs : Initialize(sm, p, cr)
    \/ \E pl \in Players, q \in QuantityInputs :
          MayPurchase(pl, q) /\ PurchaseBalls(pl, 0, q)
    \/ MayRequest /\ SpawnPokemon(0)
    \/ \E pl \in Players : MayRequest /\ ThrowBall(pl, 0, 0)
    \/ \E c \in RequestIds, r \in RandomnessInputs : OracleFulfill(c, r)
    \/ \E c \in RequestIds, inv \in {0} \cup Players, x \in AwardTransferInputs, t \in Timestamps :
          ConsumeRandomness(c, inv, x, t)
    \/ \E t \in Timestamps : MaySpawn /\ ForceSpawnPokemon(0, 7, 7, t)
    \/ \E m \in DepositInputs : MayDeposit /\ DepositNft(m)
    \/ \E i \in IndexInputs : WithdrawNft(i)

SpecVault == Init /\ [][NextVault]_vars

(* quantities passed to purchase_balls in SpecThrow: three balls of the last
   two types cost more than MAX_PURCHASE_AMOUNT, one ball does not *)
ThrowQuantityInputs == {0, 1, 3}
(* there the balls are bought before the first throw, of one type, and single
   balls of the last two types only *)
ThrowMayPurchase(pl, b, q) ==
    /\ MayPurchase(pl, q)
    /\ game_config.vrf_counter = 0
    /\ q = 1 => b >= 2
    /\ \A t \in 0..(NUM_BALL_TYPES - 1) : t # b => player_inventory[pl].balls[t] = 0

(* SpecThrow: repeated throws at the Pokemon of slot 0, with every ball type;
   the Pokemon is spawned by the authority or by a spawn Request (which the
   oracle answers with RandSpawn), and the authority may despawn it while
   throws at it await their consume. *)
NextThrow ==
    \/ \E sm \in MintArgInputs, p \in PriceInputs, cr \in RateInputs : Initialize(sm, p, cr)
    \/ \E pl \in Players, b \in 0..NUM_BALL_TYPES, q \in ThrowQuantityInputs :
          ThrowMayPurchase(pl, b, q) /\ PurchaseBalls(pl, b, q)
    \/ \E pl \in Players, b \in 0..NUM_BALL_TYPES : MayThrow /\ ThrowBall(pl, 0, b)
    \/ \E c \in RequestIds, r \in ThrowRandomnessInputs \cup {RandSpawn} :
          /\ (vrf_requests[c].request_type = VRF_TYPE_SPAWN) <=> (r = RandSpawn)
          /\ OracleFulfill(c, r)
    \/ \E c \in RequestIds, inv \in {0} \cup Players, t \in Timestamps :
          ConsumeRandomness(c, inv, "none", t)
    \/ \E t \in Timestamps :
          game_config.pokemon_id_counter < 1 /\ ForceSpawnPokemon(0, 7, 7, t)
    \/ MayThrow /\ SpawnPokemon(0)
    \/ DespawnPokemon(0)

SpecThrow == Init /\ [][NextThrow]_vars

(* SpecRates: one slot, throws with the first two balls, and set_catch_rate
   issued only while a throw Request awaits its consume. *)
RateBallInputs == {0, 1}
RateRandomnessInputs == {RandLow, RandHigh}
PendingThrow ==
    \E c \in RequestIds :
       vrf_requests[c].request_type = VRF_TYPE_THROW /\ ~vrf_requests[c].is_fulfilled

NextRates ==
    \/ Initialize(SolballsMint, DEFAULT_BALL_PRICES, DEFAULT_CATCH_RATES)
    \/ \E pl \in Players, b \in RateBallInputs, q \in QuantityInputs :
          MayPurchase(pl, q) /\ PurchaseBalls(pl, b, q)
    \/ \E t \in Timestamps : MaySpawn /\ ForceSpawnPokemon(0, 7, 7, t)
    \/ \E pl \in Players, b \in RateBallInputs : MayRequest /\ ThrowBall(pl, 0, b)
    \/ \E b \in RateBallInputs, r \in NewRateInputs : PendingThrow /\ SetCatchRate(b, r)
    \/ \E c \in RequestIds, r \in RateRandomnessInputs : OracleFulfill(c, r)
    \/ \E c \in RequestIds, inv \in Players, t \in Timestamps :
          ConsumeRandomness(c, inv, "none", t)

SpecRates == Init /\ [][NextRates]_vars

(* blobs published in the coordinate scenario: misses at the first ball's
   rate whose position bytes exceed MAX_COORDINATE *)
CoordRandomnessInputs == {RandHigh, RandMax, RandSpawn}

(* SpecCoords: the position and throw_attempts of one slot under spawns by
   request and by the authority, repositions with coordinates in and out of
   range, and missed throws up to the relocation. *)
NextCoords ==
    \/ Initialize(SolballsMint, DEFAULT_BALL_PRICES, DEFAULT_CATCH_RATES)
    \/ \E pl \in Players, q \in QuantityInputs :
          MayPurchase(pl, q) /\ PurchaseBalls(pl, 0, q)
    \/ \E x \in CoordInputs, y \in CoordInputs, t \in Timestamps :
          MaySpawn /\ ForceSpawnPokemon(0, x, y, t)
    \/ \E x \in CoordInputs, y \in CoordInputs : RepositionPokemon(0, x, y)
    \/ MayThrow /\ SpawnPokemon(0)
    \/ \E pl \in Players : MayThrow /\ ThrowBall(pl, 0, 0)
    \/ \E c \in RequestIds, r \in CoordRandomnessInputs : OracleFulfill(c, r)
    \/ \E c \in RequestIds, t \in Timestamps : ConsumeRandomness(c, 0, "none", t)

SpecCoords == Init /\ [][NextCoords]_vars

(* An instruction that returns an error, as its caller observes it: the
   transaction is reverted, so no account changes; the error code is recorded. *)
Rejected(op, req, err) ==
    /\ err # "Ok"
    /\ last' = [Outcome(op) EXCEPT !.err = err, !.req = req]
    /\ rejected' = IF req \in RequestIds
                   THEN [rejected EXCEPT ![req] = @ \cup {err}]
                   ELSE rejected
    /\ UNCHANGED <<accounts, deposits, awards, consumed, reads, since_award>>

(* the next mint the authority has not deposited yet *)
FreshMints ==
    {m \in Mints : deposits[m] = 0 /\ \A k \in Mints : k < m => deposits[k] > 0}

(* indexes passed to withdraw_nft: the last entry of a full vault, the first
   index outside the array, the largest u8 *)
HighIndexInputs == {MAX_VAULT_SIZE - 1, MAX_VAULT_SIZE, 255}

(* SpecErrors: rejected instructions observed.  initialize with bad
   arguments, the vault filled to max_size and one deposit more, withdrawals
   at high indexes, and consumes of a spawn Request before and after the
   oracle has answered. *)
NextErrors ==
    \/ \E sm \in MintArgInputs, p \in PriceInputs, cr \in RateInputs :
          \/ Initialize(sm, p, cr)
          \/ ~game_config.is_initialized
             /\ Rejected("initialize", -1, InitializeError(sm, p, cr))
    \/ \E m \in FreshMints :
          \/ DepositNft(m)
          \/ game_config.is_initialized /\ Rejected("deposit_nft", -1, DepositNftError(m))
    \/ \E i \in HighIndexInputs :
          \/ WithdrawNft(i)
          \/ game_config.is_initialized /\ Rejected("withdraw_nft", -1, WithdrawNftError(i))
    \/ game_config.vrf_counter < 1 /\ SpawnPokemon(0)
    \/ \E c \in RequestIds : OracleFulfill(c, RandHigh)
    \/ \E c \in RequestIds, t \in Timestamps :
          \/ ConsumeRandomness(c, 0, "none", t)
          \/ Rejected("consume_randomness", c, ConsumeRandomnessError(c, 0, "none"))

SpecErrors == Init /\ [][NextErrors]_vars

(* SpecForce: the authority's overrides of the slot registry, accepted and
   rejected: forced spawns with slot indexes and coordinates in and out of
   range, despawns, and changes of the cap on active Pokemon. *)
NextForce ==
    \/ Initialize(SolballsMint, DEFAULT_BALL_PRICES, DEFAULT_CATCH_RATES)
    \/ \E s \in SlotInputs, x \in CoordInputs, y \in CoordInputs, t \in Timestamps :
          \/ MaySpawn /\ ForceSpawnPokemon(s, x, y, t)
          \/ /\ game_config.is_initialized
             /\ Rejected("force_spawn_pokemon", -1, ForceSpawnPokemonError(s, x, y))
    \/ \E m \in NewMaxInputs : SetMaxActivePokemon(m)
    \/ \E s \in SlotInputs :
          \/ DespawnPokemon(s)
          \/ /\ game_config.is_initialized
             /\ Rejected("despawn_pokemon", -1, DespawnPokemonError(s))

SpecForce == Init /\ [][NextForce]_vars

(* SpecRespawn: throws at the first creature of slot 0, which the authority
   may despawn and replace by a second one before the throws are consumed;
   throw_ball is issued only while the first creature (pokemon_id 1) is the
   latest one spawned. *)
NextRespawn ==
    \/ Initialize(SolballsMint, DEFAULT_BALL_PRICES, DEFAULT_CATCH_RATES)
    \/ \E pl \in Players, q \in QuantityInputs :
          MayPurchase(pl, q) /\ PurchaseBalls(pl, 0, q)
    \/ \E t \in Timestamps : MaySpawn /\ ForceSpawnPokemon(0, 7, 7, t)
    \/ DespawnPokemon(0)
    \/ \E pl \in Players :
          MayRequest /\ game_config.pokemon_id_counter = 1 /\ ThrowBall(pl, 0, 0)
    \/ \E c \in RequestIds, r \in RateRandomnessInputs : OracleFulfill(c, r)
    \/ \E c \in RequestIds, inv \in Players, t \in Timestamps :
          ConsumeRandomness(c, inv, "none", t)

SpecRespawn == Init /\ [][NextRespawn]_vars

(* SpecAward: throws at one creature with a stocked vault, consumed with
   every kind of transfer accounts; the consumes that fail are observed, and
   the Request is consumed again afterwards. *)
NextAward ==
    \/ Initialize(SolballsMint, DEFAULT_BALL_PRICES, DEFAULT_CATCH_RATES)
    \/ \E pl \in Players, q \in QuantityInputs :
          MayPurchase(pl, q) /\ PurchaseBalls(pl, 0, q)
    \/ \E m \in FreshMints : MayDeposit /\ DepositNft(m)
    \/ \E t \in Timestamps : MaySpawn /\ ForceSpawnPokemon(0, 7, 7, t)
    \/ \E pl \in Players : MayRequest /\ ThrowBall(pl, 0, 0)
    \/ \E c \in RequestIds, r \in RandomnessInputs : OracleFulfill(c, r)
    \/ \E c \in RequestIds, inv \in Players, x \in TransferInputs, t \in Timestamps :
          /\ vrf_randomness[vrf_requests[c].seed].state = "fulfilled"
          /\ \/ ConsumeRandomness(c, inv, x, t)
             \/ Rejected("consume_randomness", c, ConsumeRandomnessError(c, inv, x))

SpecAward == Init /\ [][NextAward]_vars

(* the withdraw_nft calls that have succeeded: every asset deposited is in
   the vault, was awarded or was withdrawn *)
Withdrawals == SumOver(deposits, Mints) - SumOver(awards, Mints) - nft_vault.count

(* the vault holds at most two assets, or is full or one short of it *)
VaultEdge == nft_vault.count <= 2 \/ nft_vault.count >= MAX_VAULT_SIZE - 1

(* SpecFill: the vault stocked with fresh mints up to max_size and offered
   more; the authority withdraws the first or the last entry and players
   throw at the creature of slot 0 while the vault is at either edge of its
   capacity; every throw is a catch, selecting the first or the second
   entry; the deposits that fail are observed. *)
NextFill ==
    \/ Initialize(SolballsMint, DEFAULT_BALL_PRICES, DEFAULT_CATCH_RATES)
    \/ \E pl \in Players, q \in QuantityInputs :
          MayPurchase(pl, q) /\ PurchaseBalls(pl, 0, q)
    \/ \E m \in FreshMints :
          \/ DepositNft(m)
          \/ game_config.is_initialized /\ Rejected("deposit_nft", -1, DepositNftError(m))
    \/ \E i \in {0, MAX_VAULT_SIZE - 1} :
          VaultEdge /\ Withdrawals < MaxWithdrawals /\ WithdrawNft(i)
    \/ \E t \in Timestamps : MaySpawn /\ ForceSpawnPokemon(0, 7, 7, t)
    \/ \E pl \in Players : VaultEdge /\ MayRequest /\ ThrowBall(pl, 0, 0)
    \/ \E c \in RequestIds, r \in {RandLow, RandSel} : OracleFulfill(c, r)
    \/ \E c \in RequestIds, inv \in Players, t \in Timestamps :
          ConsumeRandomness(c, inv, "none", t)

SpecFill == Init /\ [][NextFill]_vars

(* the Requests of the decision scenario: a spawn, MAX_THROW_ATTEMPTS misses
   and a catch *)
ReadRequests == MAX_THROW_ATTEMPTS + 2
(* every Request made so far has been consumed *)
NoPending == \A c \in RequestIds : vrf_requests[c].is_fulfilled

(* SpecReads: every decision taken from randomness: the creature of slot 0
   is spawned by the authority or by Request, missed until it relocates and
   caught with the vault stocked; a Request is made once the one before it
   has been consumed. *)
NextReads ==
    \/ Initialize(SolballsMint, DEFAULT_BALL_PRICES, DEFAULT_CATCH_RATES)
    \/ \E pl \in Players, q \in QuantityInputs :
          /\ player_inventory[pl].balls[0] = 0
          /\ player_inventory[pl].total_purchased + q <= 2 * MaxPurchased
          /\ PurchaseBalls(pl, 0, q)
    \/ \E m \in FreshMints : MayDeposit /\ DepositNft(m)
    \/ \E t \in Timestamps : MaySpawn /\ ForceSpawnPokemon(0, 7, 7, t)
    \/ game_config.vrf_counter < ReadRequests /\ NoPending /\ SpawnPokemon(0)
    \/ \E pl \in Players :
          game_config.vrf_counter < ReadRequests /\ NoPending /\ ThrowBall(pl, 0, 0)
    \/ \E c \in RequestIds, r \in RateRandomnessInputs : OracleFulfill(c, r)
    \/ \E c \in RequestIds, inv \in Players, t \in Timestamps :
          ConsumeRandomness(c, inv, "none", t)

SpecReads == Init /\ [][NextReads]_vars

(* the spawn Requests of the overflow scenario: one more than a u8 counts *)
OverflowRequests == U8Max + 1

(* SpecOverflow: the authority requests a spawn into the empty slot 0 again
   and again before any of the Requests is consumed; the oracle then answers
   and the Requests are consumed one after the other, in the order in which
   they were made. *)
NextOverflow ==
    \/ Initialize(SolballsMint, DEFAULT_BALL_PRICES, DEFAULT_CATCH_RATES)
    \/ game_config.vrf_counter < OverflowRequests /\ SpawnPokemon(0)
    \/ \E c \in RequestIds :
          /\ game_config.vrf_counter = OverflowRequests
          /\ c = game_config.pokemon_id_counter
          /\ OracleFulfill(c, RandLow)
    \/ \E c \in RequestIds, t \in Timestamps :
          /\ c = game_config.pokemon_id_counter
          /\ vrf_randomness[vrf_requests[c].seed].state = "fulfilled"
          /\ \/ ConsumeRandomness(c, 0, "none", t)
             \/ Rejected("consume_randomness", c, ConsumeRandomnessError(c, 0, "none"))

SpecOverflow == Init /\ [][NextOverflow]_vars

(* the values the counters of GameConfig start from in the counter scenario:
   one below the largest u64 and the largest; for the revenue also one
   purchase of three balls below it *)
CounterStarts == {U64Max - 1, U64Max}
RevenueStarts == {U64Max - 3 * DEFAULT_BALL_PRICES[0], U64Max - 1, U64Max}
(* prices passed to set_ball_price in the counter scenario *)
(* the lifetime purchases an inventory starts from in the counter scenario:
   none, and three balls below the largest u64 *)
PurchasedStarts == {0, U64Max - 2}
(* the SolBalls a player starts with there: one short of three balls of the
   first type, and PlayerFunds *)
FundsStarts == {3 * DEFAULT_BALL_PRICES[0] - 1, PlayerFunds}
(* total_withdrawn there: nothing, and one withdrawal of the price of a ball
   below the largest u64 *)
WithdrawnStarts == {0, U64Max - DEFAULT_BALL_PRICES[0]}
CounterPriceInputs == {U64Max}
CounterBallInputs == {0, 1}
(* ball types bought there: three balls of type 2 cost more than
   MAX_PURCHASE_AMOUNT *)
CounterPurchaseInputs == {0, 1, 2}

(* a game that has been running until its counters are about to run out:
   GameConfig as initialize wrote it except for the three counters, every
   slot empty, every Request of the past consumed and left out, the players'
   lifetime purchases and SolBalls and the revenue withdrawn as the starts
   above give them *)
InitCounters ==
    /\ \E id \in CounterStarts, v \in CounterStarts, rev \in RevenueStarts :
          game_config = [is_initialized |-> TRUE, authority |-> Authority,
                         ball_prices |-> DEFAULT_BALL_PRICES,
                         catch_rates |-> DEFAULT_CATCH_RATES,
                         max_active_pokemon |-> MAX_POKEMON_SLOTS,
                         pokemon_id_counter |-> id, total_revenue |-> rev,
                         vrf_counter |-> v]
    /\ pokemon_slots = [slots |-> [i \in SlotIdx |-> DefaultSlot], active_count |-> 0]
    /\ nft_vault = [mints |-> [i \in SlotIdx |-> DefaultPubkey], count |-> 0,
                    max_size |-> MAX_VAULT_SIZE]
    /\ vrf_requests = [c \in {} |-> NoRequest]
    /\ vrf_randomness = [s \in {} |-> NoRandomness]
    /\ \E tp \in PurchasedStarts :
          player_inventory =
             [p \in Players |->
                IF tp = 0 THEN NoInventory
                ELSE [NoInventory EXCEPT !.player = p, !.total_purchased = tp]]
    /\ last = Outcome("none")
    /\ deposits = [m \in Mints |-> 0]
    /\ awards = [m \in Mints |-> 0]
    /\ consumed = [c \in {} |-> 0]
    /\ reads = NoReads
    /\ since_award = [m \in Mints |-> FALSE]
    /\ vault_nft_account = [m \in Mints |-> 0]
    /\ rejected = [c \in {} |-> {}]
    /\ \E f \in FundsStarts, w \in WithdrawnStarts :
          treasury = [NoTreasury EXCEPT !.player_token_account = [p \in Players |-> f],
                                        !.total_withdrawn = w]

(* SpecCounters: spawn requests and their consumes, forced spawns and
   purchases, accepted and rejected, next to the largest values of
   vrf_counter, pokemon_id_counter and total_revenue, purchases at the
   largest price, and withdrawals next to the largest total_withdrawn. *)
NextCounters ==
    \/ \E s \in CounterBallInputs :
          \/ SpawnPokemon(s)
          \/ Rejected("spawn_pokemon", -1, SpawnPokemonError(s))
    \/ \E c \in RequestIds : OracleFulfill(c, RandSpawn)
    \/ \E c \in RequestIds, t \in Timestamps :
          /\ vrf_randomness[vrf_requests[c].seed].state = "fulfilled"
          /\ \/ ConsumeRandomness(c, 0, "none", t)
             \/ Rejected("consume_randomness", c, ConsumeRandomnessError(c, 0, "none"))
    \/ \E t \in Timestamps :
          \/ ForceSpawnPokemon(2, 7, 7, t)
          \/ Rejected("force_spawn_pokemon", -1, ForceSpawnPokemonError(2, 7, 7))
    \/ \E pl \in Players, b \in CounterPurchaseInputs, q \in QuantityInputs :
          \/ PurchaseBalls(pl, b, q)
          \/ Rejected("purchase_balls", -1, PurchaseBallsError(pl, b, q))
    \/ \E p \in CounterPriceInputs : SetBallPrice(1, p)
    \/ \/ WithdrawRevenue(DEFAULT_BALL_PRICES[0])
       \/ Rejected("withdraw_revenue", -1, WithdrawRevenueError(DEFAULT_BALL_PRICES[0]))

SpecCounters == InitCounters /\ [][NextCounters]_vars

(* SpecAdmin: spawn requests, accepted and rejected, and their consumes,
   while the authority changes prices, rates and the cap on active Pokemon,
   withdraws revenue and stocks the vault. *)
NextAdmin ==
    \/ Initialize(SolballsMint, DEFAULT_BALL_PRICES, DEFAULT_CATCH_RATES)
    \/ \E pl \in Players, q \in QuantityInputs :
          MayPurchase(pl, q) /\ PurchaseBalls(pl, 0, q)
    \/ \E b \in BallInputs, p \in NewPriceInputs : SetBallPrice(b, p)
    \/ \E b \in BallInputs, r \in NewRateInputs : SetCatchRate(b, r)
    \/ \E m \in NewMaxInputs : SetMaxActivePokemon(m)
    \/ \E a \in AmountInputs : WithdrawRevenue(a)
    \/ \E m \in FreshMints : MayDeposit /\ DepositNft(m)
    \/ \E s \in SlotInputs :
          /\ MayRequest
          /\ \/ SpawnPokemon(s)
             \/ game_config.is_initialized
                /\ Rejected("spawn_pokemon", -1, SpawnPokemonError(s))
    \/ \E c \in RequestIds : OracleFulfill(c, RandSpawn)
    \/ \E c \in RequestIds, t \in Timestamps : ConsumeRandomness(c, 0, "none", t)

SpecAdmin == Init /\ [][NextAdmin]_vars

(* ======================= claims ======================= *)

(* a step in which consume_randomness succeeded on request c *)
ConsumedStep(c) == consumed'[c] = consumed[c] + 1

(* C1: at most one consume_randomness succeeds on a Request; once one has
   succeeded the Request is fulfilled, every further consume on it (whatever
   accounts the caller supplies) returns VrfAlreadyFulfilled before any
   other check, no step is a second successful consume of it, and the
   Request record no longer changes. *)
C1_ConsumeAtMostOnce ==
    [][\A c \in RequestIds :
          /\ consumed'[c] <= 1
          /\ consumed'[c] >= 1 => vrf_requests'[c].is_fulfilled
          /\ consumed[c] >= 1 =>
                /\ \A x \in TransferInputs :
                      ConsumeRandomnessError(c, 0, x) = "VrfAlreadyFulfilled"
                /\ ~ConsumedStep(c)
                /\ vrf_requests'[c] = vrf_requests[c]]_vars

(* a throw Request and a spawn Request have both been consumed, and a further
   consume of each is refused *)
C1_Witness ==
    \E c, d \in RequestIds :
        /\ consumed[c] = 1 /\ vrf_requests[c].request_type = VRF_TYPE_THROW
        /\ consumed[d] = 1 /\ vrf_requests[d].request_type = VRF_TYPE_SPAWN
        /\ ConsumeRandomnessError(c, 0, "valid") = "VrfAlreadyFulfilled"
        /\ ConsumeRandomnessError(d, 0, "none") = "VrfAlreadyFulfilled"

(* the number of slots whose is_active is true *)
ActiveSlots == Cardinality({i \in SlotIdx : pokemon_slots.slots[i].is_active})

(* C2: active_count equals the number of slots whose is_active is true. *)
C2_ActiveCountMatches == pokemon_slots.active_count = ActiveSlots

(* C3: the first count entries of the vault are non-default identifiers, the
   entries from count on are the default value, and count <= max_size. *)
C3_VaultLayout ==
    /\ \A i \in SlotIdx :
          IF i < nft_vault.count THEN nft_vault.mints[i] # DefaultPubkey
          ELSE nft_vault.mints[i] = DefaultPubkey
    /\ nft_vault.count >= 0
    /\ nft_vault.count <= nft_vault.max_size

(* the vault was filled to max_size, an award removed its first entry and
   moved the last one into its place, a deposit filled it again, and one
   deposit more has just been refused *)
C3_Witness ==
    /\ last.op = "deposit_nft" /\ last.err = "VaultFull"
    /\ nft_vault.count = nft_vault.max_size
    /\ nft_vault.count = MAX_VAULT_SIZE
    /\ SumOver(deposits, Mints) = MAX_VAULT_SIZE + 1
    /\ SumOver(awards, Mints) = 1 /\ awards[1] = 1
    /\ nft_vault.mints[0] = MAX_VAULT_SIZE
    /\ nft_vault.mints[MAX_VAULT_SIZE - 1] = MAX_VAULT_SIZE + 1

(* C4: no asset identifier appears more than once among the first count
   entries of the vault. *)
C4_VaultDistinct ==
    \A i, j \in SlotIdx :
        (i < nft_vault.count /\ j < nft_vault.count /\ i # j)
            => nft_vault.mints[i] # nft_vault.mints[j]

(* C5: an asset awarded by a throw consume is not awarded by another throw
   consume unless it was deposited again in between, and the awards of an
   asset never outnumber its deposits. *)
C5_NoDoubleAward ==
    [][\A m \in Mints :
          /\ awards'[m] > awards[m] => ~since_award[m]
          /\ awards'[m] <= deposits'[m]]_vars

(* the consume of throw Request c, in this step, resolves as a catch *)
CatchStep(c) ==
    /\ ConsumedStep(c)
    /\ vrf_requests[c].request_type = VRF_TYPE_THROW
    /\ last'.caught

(* C6: a catch on a vault holding exactly one asset claims it (the vault ends
   at count 0 and one NftAwarded is emitted for it); a catch on the emptied
   vault claims nothing (no NftAwarded, vault and awards unchanged).  Two
   catching consumes on a vault of one therefore award exactly once, in
   either order. *)
C6_SingleAssetClaimedOnce ==
    [][\A c \in RequestIds : CatchStep(c) =>
          /\ nft_vault.count = 1 =>
                /\ nft_vault'.count = 0
                /\ last'.awarded = nft_vault.mints[0]
                /\ last'.awarded # DefaultPubkey
                /\ SumOver(awards', Mints) = SumOver(awards, Mints) + 1
          /\ nft_vault.count = 0 =>
                /\ nft_vault' = nft_vault
                /\ awards' = awards
                /\ last'.awarded = DefaultPubkey]_vars

(* a throw Request whose randomness makes it a catch at the configured rates *)
CatchingThrow(c) ==
    /\ vrf_requests[c].exists
    /\ vrf_requests[c].request_type = VRF_TYPE_THROW
    /\ vrf_requests[c].slot_index < MAX_POKEMON_SLOTS
    /\ vrf_requests[c].ball_type < NUM_BALL_TYPES
    /\ vrf_randomness[vrf_requests[c].seed].state = "fulfilled"
    /\ Caught(vrf_randomness[vrf_requests[c].seed].randomness,
              game_config.catch_rates[vrf_requests[c].ball_type])

(* one asset was deposited, two catching throws were consumed, the second of
   them found the vault empty: one award in all *)
C6_Witness ==
    /\ SumOver(deposits, Mints) = 1 /\ SumOver(awards, Mints) = 1
    /\ nft_vault.count = 0
    /\ last.caught /\ last.awarded = DefaultPubkey
    /\ \E c, d \in RequestIds :
          /\ c # d
          /\ CatchingThrow(c) /\ consumed[c] = 1
          /\ CatchingThrow(d) /\ consumed[d] = 1

(* C7: a catching throw consume on a non-empty vault succeeds when no
   transfer accounts are supplied; such a consume removes the selected asset
   (count decreases by one), emits NftAwarded for it, clears the slot and
   marks the Request fulfilled. *)
C7_AwardWithoutTransferAccounts ==
    [][\A c \in RequestIds :
          /\ (CatchingThrow(c) /\ ~vrf_requests[c].is_fulfilled /\ nft_vault.count > 0)
                => \A inv \in {0} \cup Players :
                      ConsumeRandomnessError(c, inv, "none") = "Ok"
          /\ (CatchStep(c) /\ nft_vault.count > 0 /\ ~last'.transferred) =>
                /\ nft_vault'.count = nft_vault.count - 1
                /\ last'.awarded # DefaultPubkey
                /\ \E i \in SlotIdx : i < nft_vault.count /\ last'.awarded = nft_vault.mints[i]
                /\ awards'[last'.awarded] = awards[last'.awarded] + 1
                /\ pokemon_slots'.slots[vrf_requests[c].slot_index] = DefaultSlot
                /\ vrf_requests'[c].is_fulfilled]_vars

(* a catch consumed without a transfer: the asset is out of the vault and
   NftAwarded names it *)
C7_Witness ==
    /\ last.op = "consume_randomness" /\ last.caught
    /\ last.awarded # DefaultPubkey /\ ~last.transferred
    /\ nft_vault.count = 0 /\ SumOver(deposits, Mints) = 1
    /\ vrf_requests[last.req].is_fulfilled
    /\ ~pokemon_slots.slots[0].is_active

(* 256^i mod 100, for i = 0..7 *)
Pow256Mod100 == <<1, 56, 36, 16, 96, 76, 56, 36>>

(* the little-endian u64 of bytes [0..8], reduced mod 100 term by term *)
ExpectedRoll(r) ==
    (r[0] * Pow256Mod100[1] + r[1] * Pow256Mod100[2] + r[2] * Pow256Mod100[3]
     + r[3] * Pow256Mod100[4] + r[4] * Pow256Mod100[5] + r[5] * Pow256Mod100[6]
     + r[6] * Pow256Mod100[7] + r[7] * Pow256Mod100[8]) % 100

(* C8: for every ball tier, a throw consume resolves as a catch iff the
   little-endian u64 of randomness bytes [0..8] mod 100 is strictly less than
   catch_rates[tier], and as a miss otherwise (a catch clears the slot, a
   miss leaves its Pokemon in place). *)
C8_CaughtIffRollBelowRate ==
    [][\A c \in RequestIds :
          (ConsumedStep(c) /\ vrf_requests[c].request_type = VRF_TYPE_THROW) =>
             LET req == vrf_requests[c]
                 r == vrf_randomness[req.seed].randomness
                 slot == pokemon_slots.slots[req.slot_index]
                 slot2 == pokemon_slots'.slots[req.slot_index]
             IN /\ last'.caught <=> ExpectedRoll(r) < game_config.catch_rates[req.ball_type]
                /\ last'.caught => slot2 = DefaultSlot
                /\ ~last'.caught => /\ slot2.is_active = slot.is_active
                                    /\ slot2.pokemon_id = slot.pokemon_id]_vars

(* a roll of 99 against the rate 99 of tier 3 was consumed as a miss *)
C8_Witness ==
    /\ last.op = "consume_randomness" /\ ~last.caught
    /\ vrf_requests[last.req].request_type = VRF_TYPE_THROW
    /\ vrf_requests[last.req].ball_type = 3
    /\ game_config.catch_rates[3] = 99
    /\ ExpectedRoll(vrf_randomness[vrf_requests[last.req].seed].randomness) = 99
    /\ pokemon_slots.slots[0].is_active

(* C9 as stated: the byte ranges read for any two different decisions (spawn
   position, catch roll, pool selection, relocation position) are disjoint. *)
C9_AllRangesDisjoint ==
    \A d, e \in Decisions : d # e => reads[d] \cap reads[e] = {}

(* C9 amended: the byte ranges one consume reads from its randomness for two
   different decisions are disjoint, and so are the ranges of the three throw
   decisions (catch roll, pool selection, relocation position) over all
   consumes: the catch roll is read from [0..8], the pool selection from
   [8..16], the relocation position from [16..20]; a spawn consume reads
   only the spawn position, from [0..4]. *)
C9_RangesDisjointPerConsume ==
    /\ \A d, e \in Decisions : d # e => last.reads[d] \cap last.reads[e] = {}
    /\ \A d, e \in Decisions \ {"spawn_pos"} : d # e => reads[d] \cap reads[e] = {}
    /\ reads["catch_roll"] \subseteq 0..7
    /\ reads["nft_index"] \subseteq 8..15
    /\ reads["reloc_pos"] \subseteq 16..19
    /\ reads["spawn_pos"] \subseteq 0..3
    /\ last.reads["spawn_pos"] # {} =>
          \A d \in Decisions \ {"spawn_pos"} : last.reads[d] = {}

(* consumes have read a spawn position, a catch roll, a pool selection and a
   relocation position, and the last consume was a miss that read its roll
   and the position it relocated the creature to *)
C9_Witness ==
    /\ reads["spawn_pos"] = 0..3
    /\ reads["catch_roll"] = 0..7
    /\ reads["nft_index"] = 8..15
    /\ reads["reloc_pos"] = 16..19
    /\ last.op = "consume_randomness" /\ last.relocated
    /\ last.reads["catch_roll"] = 0..7
    /\ last.reads["reloc_pos"] = 16..19
    /\ last.reads["nft_index"] = {}

(* C10: a miss on a slot with throw_attempts = MAX_THROW_ATTEMPTS - 1 leaves
   the slot with throw_attempts = 0, at the position derived from bytes
   [16..18] and [18..20] mod (MAX_COORDINATE + 1), within [0, MAX_COORDINATE],
   with is_active and pokemon_id as they were, so that an active slot remains
   active with the same pokemon_id, and active_count unchanged. *)
C10_RelocationOnExhaustion ==
    [][\A c \in RequestIds :
          LET req == vrf_requests[c]
              r == vrf_randomness[req.seed].randomness
              slot == pokemon_slots.slots[req.slot_index]
              slot2 == pokemon_slots'.slots[req.slot_index]
          IN (/\ ConsumedStep(c)
              /\ req.request_type = VRF_TYPE_THROW
              /\ ~last'.caught
              /\ slot.throw_attempts = MAX_THROW_ATTEMPTS - 1) =>
                /\ slot2.throw_attempts = 0
                /\ slot2.pos_x = (r[16] + 256 * r[17]) % (MAX_COORDINATE + 1)
                /\ slot2.pos_y = (r[18] + 256 * r[19]) % (MAX_COORDINATE + 1)
                /\ slot2.pos_x \in 0..MAX_COORDINATE
                /\ slot2.pos_y \in 0..MAX_COORDINATE
                /\ slot2.is_active = slot.is_active
                /\ slot2.pokemon_id = slot.pokemon_id
                /\ slot.is_active => slot2.is_active /\ slot2.pokemon_id # 0
                /\ pokemon_slots'.active_count = pokemon_slots.active_count]_vars

(* the third miss on the Pokemon of slot 0, with position bytes 1, 2 and
   3, 4, moved it from (7, 7) to (513, 27) *)
C10_Witness ==
    /\ last.op = "consume_randomness" /\ last.relocated /\ ~last.caught
    /\ vrf_randomness[vrf_requests[last.req].seed].randomness = RandMax
    /\ pokemon_slots.slots[0].is_active
    /\ pokemon_slots.slots[0].pokemon_id = 1
    /\ pokemon_slots.slots[0].throw_attempts = 0
    /\ pokemon_slots.slots[0].pos_x = 513
    /\ pokemon_slots.slots[0].pos_y = 27
    /\ pokemon_slots.active_count = 1

(* the third miss of throws consumed after the Pokemon of slot 0 was
   despawned set the position of the empty slot and left it empty *)
C10_WitnessDespawned ==
    /\ last.op = "consume_randomness" /\ last.relocated /\ ~last.caught
    /\ ~pokemon_slots.slots[0].is_active
    /\ pokemon_slots.slots[0].pokemon_id = 0
    /\ pokemon_slots.slots[0].throw_attempts = 0
    /\ pokemon_slots.slots[0].pos_x = 513
    /\ pokemon_slots.slots[0].pos_y = 27
    /\ pokemon_slots.active_count = 0

(* the consume of throw Request c, in this step, resolves as a miss *)
MissStep(c) ==
    /\ ConsumedStep(c)
    /\ vrf_requests[c].request_type = VRF_TYPE_THROW
    /\ ~last'.caught

(* C11: on an active slot, a miss at throw_attempts 0 gives 1 and a miss at 1
   gives 2, both without PokemonRelocated and with the position unchanged; a
   miss at 2 (the third in a row, MAX_THROW_ATTEMPTS = 3) emits
   PokemonRelocated, resets throw_attempts to 0, keeps the slot active and
   sets the position derived from the randomness. *)
C11_ThreeMissesRelocate ==
    [][\A c \in RequestIds :
          LET req == vrf_requests[c]
              r == vrf_randomness[req.seed].randomness
              slot == pokemon_slots.slots[req.slot_index]
              slot2 == pokemon_slots'.slots[req.slot_index]
          IN (MissStep(c) /\ slot.is_active) =>
                /\ MAX_THROW_ATTEMPTS = 3
                /\ slot.throw_attempts \in {0, 1, 2}
                /\ slot2.is_active /\ slot2.pokemon_id = slot.pokemon_id
                /\ slot.throw_attempts \in {0, 1} =>
                      /\ slot2.throw_attempts = slot.throw_attempts + 1
                      /\ slot2.pos_x = slot.pos_x /\ slot2.pos_y = slot.pos_y
                      /\ ~last'.relocated
                /\ slot.throw_attempts = 2 =>
                      /\ last'.relocated
                      /\ slot2.throw_attempts = 0
                      /\ slot2.pos_x = U16Le(r, 16) % 1000
                      /\ slot2.pos_y = U16Le(r, 18) % 1000]_vars

(* three throws at the one Pokemon were consumed, all of them misses (it is
   still there), and the last one relocated it *)
C11_Witness ==
    /\ RequestIds = 0..2
    /\ \A c \in RequestIds :
          consumed[c] = 1 /\ vrf_requests[c].request_type = VRF_TYPE_THROW
    /\ last.op = "consume_randomness" /\ last.relocated
    /\ pokemon_slots.slots[0].is_active
    /\ pokemon_slots.slots[0].pokemon_id = 1
    /\ pokemon_slots.slots[0].throw_attempts = 0
    /\ <<pokemon_slots.slots[0].pos_x, pokemon_slots.slots[0].pos_y>> # <<7, 7>>

(* a step in which the instruction op was rejected on Request c with error err *)
RejectedStep(op, c, err) ==
    /\ last' # last
    /\ last'.op = op /\ last'.req = c /\ last'.err = err

(* C12: while a Request is unfulfilled and its oracle record is not fulfilled,
   every consume_randomness on it returns VrfNotFulfilled and none succeeds;
   the rejected call changes no account, the Request stays unfulfilled; once
   the oracle has answered, a Request that was so rejected can be consumed. *)
C12_NotFulfilledRejected ==
    [][\A c \in RequestIds :
          LET req == vrf_requests[c]
              rnd == vrf_randomness[req.seed]
          IN /\ (~req.is_fulfilled /\ rnd.state # "fulfilled") =>
                   /\ \A x \in TransferInputs :
                         ConsumeRandomnessError(c, 0, x) = "VrfNotFulfilled"
                   /\ ~ConsumedStep(c)
                   /\ ~vrf_requests'[c].is_fulfilled
                   /\ rejected'[c] \subseteq {"VrfNotFulfilled"}
             /\ RejectedStep("consume_randomness", c, "VrfNotFulfilled") =>
                   /\ accounts' = accounts
                   /\ consumed' = consumed
                   /\ rnd.state # "fulfilled"
             /\ (~req.is_fulfilled /\ rnd.state = "fulfilled"
                    /\ "VrfNotFulfilled" \in rejected[c]) =>
                   ConsumeRandomnessError(c, 0, "none") = "Ok"]_vars

(* a spawn Request was refused with VrfNotFulfilled before the oracle answered
   and consumed after *)
C12_Witness ==
    \E c \in RequestIds :
        /\ "VrfNotFulfilled" \in rejected[c]
        /\ consumed[c] = 1
        /\ vrf_requests[c].is_fulfilled
        /\ pokemon_slots.slots[vrf_requests[c].slot_index].is_active
        /\ pokemon_slots.active_count = 1

(* a step in which consume_randomness succeeded on the spawn Request c *)
SpawnStep(c) == ConsumedStep(c) /\ vrf_requests[c].request_type = VRF_TYPE_SPAWN

(* C13: a successful spawn consume raises pokemon_id_counter by exactly one,
   makes the Request's target slot active with pokemon_id equal to the new
   counter, throw_attempts 0 and the position read from bytes [0..2] and
   [2..4] of the randomness modulo 1000, raises active_count by exactly one,
   marks the Request fulfilled and changes no other slot. *)
C13_SpawnConsumeEffect ==
    [][\A c \in RequestIds :
          SpawnStep(c) =>
             LET req == vrf_requests[c]
                 r == vrf_randomness[req.seed].randomness
                 slot == pokemon_slots'.slots[req.slot_index]
             IN /\ game_config'.pokemon_id_counter = game_config.pokemon_id_counter + 1
                /\ slot.is_active
                /\ slot.pokemon_id = game_config'.pokemon_id_counter
                /\ slot.throw_attempts = 0
                /\ slot.pos_x = (r[0] + 256 * r[1]) % 1000
                /\ slot.pos_y = (r[2] + 256 * r[3]) % 1000
                /\ pokemon_slots'.active_count = pokemon_slots.active_count + 1
                /\ ~req.is_fulfilled /\ vrf_requests'[c].is_fulfilled
                /\ \A s \in SlotIdx \ {req.slot_index} :
                      pokemon_slots'.slots[s] = pokemon_slots.slots[s]]_vars

(* a spawn consume has placed creature 2 at (1, 535) in slot 1, next to the
   creature of slot 0 *)
C13_Witness ==
    /\ last.op = "consume_randomness" /\ last.err = "Ok"
    /\ last.req \in RequestIds
    /\ vrf_requests[last.req].request_type = VRF_TYPE_SPAWN
    /\ vrf_requests[last.req].slot_index = 1
    /\ vrf_requests[last.req].is_fulfilled
    /\ vrf_randomness[vrf_requests[last.req].seed].randomness = RandSpawn
    /\ pokemon_slots.slots[1] =
          [pokemon_slots.slots[1] EXCEPT !.is_active = TRUE, !.pokemon_id = 2,
                                         !.pos_x = 1, !.pos_y = 535, !.throw_attempts = 0]
    /\ pokemon_slots.slots[0].is_active
    /\ game_config.pokemon_id_counter = 2

(* C14: a throw consume that resolves as a catch on an active slot resets
   that slot to the empty default record (inactive, pokemon_id 0, position
   0, throw_attempts 0), lowers active_count by exactly one, marks the
   Request fulfilled and leaves every other slot unchanged. *)
C14_CatchClearsSlot ==
    [][\A c \in RequestIds :
          (CatchStep(c) /\ pokemon_slots.slots[vrf_requests[c].slot_index].is_active) =>
             LET idx == vrf_requests[c].slot_index
                 slot == pokemon_slots'.slots[idx]
             IN /\ ~slot.is_active /\ slot.pokemon_id = 0
                /\ slot.pos_x = 0 /\ slot.pos_y = 0 /\ slot.throw_attempts = 0
                /\ slot = DefaultSlot
                /\ pokemon_slots'.active_count = pokemon_slots.active_count - 1
                /\ vrf_requests'[c].is_fulfilled
                /\ \A s \in SlotIdx \ {idx} :
                      pokemon_slots'.slots[s] = pokemon_slots.slots[s]]_vars

(* a step in which deposit_nft returned, successfully or with an error *)
DepositStep == last'.op = "deposit_nft" /\ (last' # last \/ deposits' # deposits)

(* C15: deposit_nft fails with VaultFull and leaves the vault unchanged when
   count equals max_size; otherwise it stores the deposited mint at index
   count, raises count by exactly one and leaves the identifiers stored
   before in place. *)
C15_DepositAppendsOrVaultFull ==
    [][DepositStep =>
          IF nft_vault.count = nft_vault.max_size
          THEN /\ last'.err = "VaultFull"
               /\ nft_vault' = nft_vault
               /\ vault_nft_account' = vault_nft_account
          ELSE /\ last'.err = "Ok"
               /\ \E m \in Mints :
                     /\ deposits'[m] = deposits[m] + 1
                     /\ nft_vault'.mints[nft_vault.count] = m
               /\ nft_vault'.count = nft_vault.count + 1
               /\ nft_vault'.max_size = nft_vault.max_size
               /\ \A i \in SlotIdx :
                     i # nft_vault.count => nft_vault'.mints[i] = nft_vault.mints[i]]_vars

(* the vault was filled to max_size = 20 and a further deposit was rejected *)
C15_Witness ==
    /\ last.op = "deposit_nft" /\ last.err = "VaultFull"
    /\ nft_vault.count = MAX_VAULT_SIZE
    /\ nft_vault.count = nft_vault.max_size
    /\ \A i \in SlotIdx : nft_vault.mints[i] = i + 1
    /\ SumOver(deposits, Mints) = MAX_VAULT_SIZE

(* the values of a u8 argument *)
U8Values == 0..U8Max

(* C16: withdraw_nft called with any index >= count, for every index value
   representable as u8 and also on an empty vault, fails with InvalidNftIndex
   (and, being rejected, leaves the vault unchanged): every rejected
   withdraw_nft observed at such an index reports InvalidNftIndex. *)
C16_InvalidIndexRejected ==
    /\ game_config.is_initialized =>
          \A i \in U8Values :
             i >= nft_vault.count => WithdrawNftError(i) = "InvalidNftIndex"
    /\ (last.op = "withdraw_nft" /\ last.err # "Ok"
           /\ \A i \in HighIndexInputs : i >= nft_vault.count)
          => last.err = "InvalidNftIndex"

(* a step in which initialize returned an error *)
InitializeRejectedStep ==
    last'.op = "initialize" /\ last'.err # "Ok" /\ last' # last

(* C17: initialize with any of the four ball prices equal to 0 is rejected
   with ZeroBallPrice, and with non-zero prices and any catch rate above 100
   with InvalidCatchRate (the prices are validated first); a rejected
   initialize persists nothing: GameConfig, the slot registry and the vault
   stay uninitialised. *)
C17_InitializeValidates ==
    [][/\ \A sm \in MintArgInputs, t \in 0..(NUM_BALL_TYPES - 1), cr \in RateInputs :
             InitializeError(sm, [DEFAULT_BALL_PRICES EXCEPT ![t] = 0], cr) = "ZeroBallPrice"
       /\ \A sm \in MintArgInputs, t \in 0..(NUM_BALL_TYPES - 1), v \in {101, 255} :
             InitializeError(sm, DEFAULT_BALL_PRICES, [DEFAULT_CATCH_RATES EXCEPT ![t] = v])
                = "InvalidCatchRate"
       /\ InitializeRejectedStep =>
             /\ last'.err \in {"ZeroBallPrice", "InvalidCatchRate", "Unauthorized"}
             /\ ~game_config.is_initialized /\ ~game_config'.is_initialized
             /\ UNCHANGED <<game_config, pokemon_slots, nft_vault>>
       /\ (~game_config.is_initialized /\ game_config'.is_initialized) =>
             /\ \A t \in 0..(NUM_BALL_TYPES - 1) : game_config'.ball_prices[t] > 0
             /\ \A t \in 0..(NUM_BALL_TYPES - 1) : game_config'.catch_rates[t] <= 100]_vars

(* an initialize with a zero price was rejected and nothing is initialised *)
C17_Witness ==
    /\ last.op = "initialize" /\ last.err = "ZeroBallPrice"
    /\ ~game_config.is_initialized
    /\ nft_vault.max_size = 0

(* an initialize with a catch rate of 101 and valid prices was rejected *)
C17_WitnessRate ==
    /\ last.op = "initialize" /\ last.err = "InvalidCatchRate"
    /\ ~game_config.is_initialized

(* C18: every active slot has a non-zero pokemon_id and no two active slots
   share a pokemon_id; pokemon_id_counter never decreases and is at least as
   large as every pokemon_id assigned (every id a slot holds and every id a
   step writes into a slot). *)
C18_UniqueIdsMonotoneCounter ==
    /\ [](/\ \A i \in SlotIdx :
               pokemon_slots.slots[i].is_active => pokemon_slots.slots[i].pokemon_id # 0
          /\ \A i, j \in SlotIdx :
                (/\ i # j
                 /\ pokemon_slots.slots[i].is_active
                 /\ pokemon_slots.slots[j].is_active)
                   => pokemon_slots.slots[i].pokemon_id # pokemon_slots.slots[j].pokemon_id
          /\ \A i \in SlotIdx :
                pokemon_slots.slots[i].pokemon_id <= game_config.pokemon_id_counter)
    /\ [][game_config'.pokemon_id_counter >= game_config.pokemon_id_counter]_vars

(* two creatures are active, one spawned by the authority and one by a
   consumed spawn Request, with ids 1 and 2 *)
C18_Witness ==
    /\ pokemon_slots.slots[0].is_active /\ pokemon_slots.slots[1].is_active
    /\ {pokemon_slots.slots[0].pokemon_id, pokemon_slots.slots[1].pokemon_id} = {1, 2}
    /\ game_config.pokemon_id_counter = 2
    /\ last.op = "consume_randomness"
    /\ \E c \in RequestIds :
          vrf_requests[c].request_type = VRF_TYPE_SPAWN /\ consumed[c] = 1

(* C19: every slot has pos_x <= MAX_COORDINATE, pos_y <= MAX_COORDINATE and
   throw_attempts <= MAX_THROW_ATTEMPTS, whatever randomness the oracle
   supplies and whatever coordinates the authority passes to force_spawn or
   reposition. *)
C19_SlotFieldsInRange ==
    \A i \in SlotIdx :
        /\ pokemon_slots.slots[i].pos_x >= 0
        /\ pokemon_slots.slots[i].pos_x <= MAX_COORDINATE
        /\ pokemon_slots.slots[i].pos_y >= 0
        /\ pokemon_slots.slots[i].pos_y <= MAX_COORDINATE
        /\ pokemon_slots.slots[i].throw_attempts >= 0
        /\ pokemon_slots.slots[i].throw_attempts <= MAX_THROW_ATTEMPTS

(* the third miss relocated the creature with 16-bit values of 65535 and
   1001, which wrap to 535 and 1 *)
C19_Witness ==
    /\ last.op = "consume_randomness" /\ last.relocated
    /\ vrf_randomness[vrf_requests[last.req].seed].randomness = RandHigh
    /\ pokemon_slots.slots[0].is_active
    /\ pokemon_slots.slots[0].pos_x = 535 /\ pokemon_slots.slots[0].pos_y = 1
    /\ pokemon_slots.slots[0].throw_attempts = 0

(* the oracle has published randomness for Request c and c is not consumed *)
Ready(c) ==
    /\ vrf_requests[c].exists
    /\ ~vrf_requests[c].is_fulfilled
    /\ vrf_randomness[vrf_requests[c].seed].state = "fulfilled"

(* C20: an unfulfilled Request never expires and cannot be cancelled: once
   the oracle has published randomness for it, consume_randomness on it
   succeeds for any caller in every later state, whatever has happened to
   the slot registry, the vault or the configuration, until it is consumed
   (so that, under weak fairness of consume, it eventually is). *)
C20_ReadyAlwaysConsumable ==
    \A c \in RequestIds :
        Ready(c) => ConsumeRandomnessError(c, 0, "none") = "Ok"

(* C21: whenever a throw consume performs the custody transfer of the awarded
   asset, the recipient is the requester recorded in the Request
   (vrf_request.player), whoever cranks the consume and whatever accounts
   they supply. *)
C21_TransferToRequester ==
    [][\A c \in RequestIds :
          (CatchStep(c) /\ last'.transferred) =>
             last'.recipient = vrf_requests[c].player]_vars

(* a step in which consume_randomness succeeded on the throw Request c *)
ThrowStep(c) == ConsumedStep(c) /\ vrf_requests[c].request_type = VRF_TYPE_THROW

(* C22: the recorded state after a successful throw consume is a function of
   the pre-state and the randomness alone: with the transfer accounts for
   the selected asset supplied or omitted, the slot registry, the vault's
   contents and count, the counters of GameConfig and the Request's flag come
   out the same. *)
C22_StateIndependentOfTransferAccounts ==
    [][\A c \in RequestIds :
          ThrowStep(c) =>
             LET req == vrf_requests[c]
                 r == vrf_randomness[req.seed].randomness
                 slot == pokemon_slots.slots[req.slot_index]
                 caught == CatchRoll(r) < game_config.catch_rates[req.ball_type]
             IN /\ last'.caught = caught
                /\ pokemon_slots' =
                      IF caught THEN ClearSlot(pokemon_slots, req.slot_index)
                      ELSE [pokemon_slots EXCEPT !.slots[req.slot_index] = MissSlot(slot, r)]
                /\ nft_vault' =
                      IF caught /\ nft_vault.count > 0
                      THEN AwardRemove(nft_vault, NftIndex(r, nft_vault.count))
                      ELSE nft_vault
                /\ game_config' = game_config
                /\ vrf_requests'[c] = MarkFulfilled(req)]_vars

(* a catch removed the asset from the vault although the caller supplied no
   transfer accounts *)
C22_Witness ==
    /\ last.op = "consume_randomness" /\ last.caught
    /\ last.awarded # DefaultPubkey /\ ~last.transferred
    /\ SumOver(deposits, Mints) = 2 /\ nft_vault.count = 1
    /\ nft_vault.mints[0] # last.awarded
    /\ vault_nft_account[last.awarded] = 1
    /\ vrf_requests[last.req].is_fulfilled

(* C25: a spawn consume performs no capacity or occupancy re-check: a Ready
   spawn Request is resolved and its creature is spawned even when, at
   consume time, active_count >= max_active_pokemon. *)
C25_SpawnConsumeIgnoresCap ==
    /\ [](\A c \in RequestIds :
             (Ready(c) /\ vrf_requests[c].request_type = VRF_TYPE_SPAWN
                 /\ pokemon_slots.active_count >= game_config.max_active_pokemon)
                => ConsumeRandomnessError(c, 0, "none") = "Ok")
    /\ [][\A c \in RequestIds :
             (SpawnStep(c) /\ pokemon_slots.active_count >= game_config.max_active_pokemon)
                => /\ pokemon_slots'.slots[vrf_requests[c].slot_index].is_active
                   /\ pokemon_slots'.active_count = pokemon_slots.active_count + 1
                   /\ vrf_requests'[c].is_fulfilled]_vars

(* with the cap lowered to 1 after two spawn Requests were made, both were
   consumed: two creatures are active *)
C25_Witness ==
    /\ game_config.max_active_pokemon = 1
    /\ pokemon_slots.active_count = 2
    /\ pokemon_slots.slots[0].is_active /\ pokemon_slots.slots[1].is_active
    /\ \A c \in RequestIds : consumed[c] = 1
    /\ last.op = "consume_randomness"

(* C26: a throw consume that resolves as a miss on a slot whose throw_attempts
   after the increment is below MAX_THROW_ATTEMPTS raises that slot's
   throw_attempts by exactly one and changes nothing else: the slot's other
   fields, every other slot, active_count, the vault and GameConfig (with
   pokemon_id_counter) are unchanged; only the Request becomes fulfilled. *)
C26_MissOnlyCountsAttempt ==
    [][\A c \in RequestIds :
          (MissStep(c)
              /\ pokemon_slots.slots[vrf_requests[c].slot_index].throw_attempts + 1
                    < MAX_THROW_ATTEMPTS) =>
             LET idx == vrf_requests[c].slot_index
                 old == pokemon_slots.slots[idx]
                 new == pokemon_slots'.slots[idx]
             IN /\ new.throw_attempts = old.throw_attempts + 1
                /\ new.is_active = old.is_active
                /\ new.pokemon_id = old.pokemon_id
                /\ new.pos_x = old.pos_x /\ new.pos_y = old.pos_y
                /\ new.spawn_timestamp = old.spawn_timestamp
                /\ \A s \in SlotIdx \ {idx} :
                      pokemon_slots'.slots[s] = pokemon_slots.slots[s]
                /\ pokemon_slots'.active_count = pokemon_slots.active_count
                /\ UNCHANGED <<nft_vault, vault_nft_account, game_config, player_inventory,
                               treasury, vrf_randomness>>
                /\ ~last'.relocated
                /\ vrf_requests'[c] = [vrf_requests[c] EXCEPT !.is_fulfilled = TRUE]
                /\ \A d \in RequestIds \ {c} : vrf_requests'[d] = vrf_requests[d]]_vars

(* the second miss in a row left the creature where it was, with
   throw_attempts 2 *)
C26_Witness ==
    /\ last.op = "consume_randomness" /\ ~last.caught /\ ~last.relocated
    /\ pokemon_slots.slots[0].is_active
    /\ pokemon_slots.slots[0].throw_attempts = 2
    /\ pokemon_slots.slots[0].pos_x = 7 /\ pokemon_slots.slots[0].pos_y = 7
    /\ pokemon_slots.active_count = 1
    /\ vrf_requests[last.req].is_fulfilled

(* a step in which spawn_pokemon returned an error *)
SpawnRejectedStep == last'.op = "spawn_pokemon" /\ last'.err # "Ok" /\ last' # last

(* a step in which spawn_pokemon created a Request *)
SpawnRequestStep ==
    /\ last'.op = "spawn_pokemon" /\ last'.err = "Ok"
    /\ game_config'.vrf_counter = game_config.vrf_counter + 1

(* C27: spawn_pokemon is rejected with InvalidSlotIndex when slot_index >= 20,
   with SlotAlreadyOccupied when the target slot is active, and with
   MaxActivePokemonReached when active_count >= max_active_pokemon; a
   rejected call creates no Request and leaves vrf_counter, the slot registry
   and the vault unchanged, and a call that is accepted met none of the
   three conditions. *)
C27_SpawnRequestRejections ==
    /\ [](game_config.is_initialized =>
             \A s \in U8Values :
                /\ s >= 20 => SpawnPokemonError(s) = "InvalidSlotIndex"
                /\ (s < 20 /\ pokemon_slots.slots[s].is_active)
                      => SpawnPokemonError(s) = "SlotAlreadyOccupied"
                /\ (/\ s < 20 /\ ~pokemon_slots.slots[s].is_active
                    /\ pokemon_slots.active_count >= game_config.max_active_pokemon)
                      => SpawnPokemonError(s) = "MaxActivePokemonReached")
    /\ [][/\ SpawnRejectedStep =>
                /\ last'.err \in {"InvalidSlotIndex", "SlotAlreadyOccupied",
                                  "MaxActivePokemonReached"}
                /\ DOMAIN vrf_requests' = DOMAIN vrf_requests
                /\ UNCHANGED <<vrf_requests, vrf_randomness, game_config, pokemon_slots,
                               nft_vault>>
          /\ SpawnRequestStep =>
                LET s == vrf_requests'[last'.req].slot_index
                IN /\ s < 20 /\ ~pokemon_slots.slots[s].is_active
                   /\ pokemon_slots.active_count < game_config.max_active_pokemon]_vars

(* with the cap at 1 and one creature active, a spawn request for an empty
   slot was rejected *)
C27_Witness ==
    /\ last.op = "spawn_pokemon" /\ last.err = "MaxActivePokemonReached"
    /\ game_config.max_active_pokemon = 1
    /\ pokemon_slots.active_count = 1
    /\ ~pokemon_slots.slots[1].is_active
    /\ game_config.vrf_counter = 1 /\ RequestIds = {0}

(* a spawn request for an occupied slot was rejected *)
C27_WitnessOccupied ==
    /\ last.op = "spawn_pokemon" /\ last.err = "SlotAlreadyOccupied"
    /\ pokemon_slots.slots[0].is_active

(* a spawn request for slot 20 was rejected *)
C27_WitnessIndex ==
    /\ last.op = "spawn_pokemon" /\ last.err = "InvalidSlotIndex"

(* the instructions that are neither a consume nor an administrative override
   of the slot registry or the vault *)
BookkeepingOps ==
    {"spawn_pokemon", "purchase_balls", "set_ball_price", "set_catch_rate",
     "set_max_active_pokemon", "withdraw_revenue"}

(* C28: a spawn request, purchase_balls, set_ball_price, set_catch_rate,
   set_max_active_pokemon and withdraw_revenue leave every slot,
   active_count and the vault's mints and count unchanged. *)
C28_BookkeepingLeavesSlotsAndVault ==
    [][last'.op \in BookkeepingOps =>
          /\ \A s \in SlotIdx : pokemon_slots'.slots[s] = pokemon_slots.slots[s]
          /\ pokemon_slots'.active_count = pokemon_slots.active_count
          /\ \A i \in SlotIdx : nft_vault'.mints[i] = nft_vault.mints[i]
          /\ nft_vault'.count = nft_vault.count]_vars

(* revenue was withdrawn after a purchase, with a changed price, rate and cap, while a creature is active and the vault is stocked *)
C28_Witness ==
    /\ last.op = "withdraw_revenue" /\ last.err = "Ok"
    /\ treasury.total_withdrawn > 0
    /\ game_config.total_revenue = 3 * DEFAULT_BALL_PRICES[0]
    /\ game_config.ball_prices[0] = 7
    /\ game_config.catch_rates[0] = 50
    /\ game_config.max_active_pokemon = 1
    /\ game_config.vrf_counter = 2
    /\ pokemon_slots.active_count = 1 /\ pokemon_slots.slots[0].is_active
    /\ nft_vault.count = 2

(* C29: a Request record is terminal once consumed: is_fulfilled is never
   reset, request_type, player, slot_index, ball_type and seed never change
   after the request created the record, and no later request
   re-initialises or reuses an existing record: the record a request creates
   is the one addressed by the vrf_counter it found, which no record had. *)
C29_RequestRecordTerminal ==
    [][/\ \A c \in DOMAIN vrf_requests :
             /\ c \in DOMAIN vrf_requests'
             /\ vrf_requests'[c].exists
             /\ vrf_requests'[c].request_type = vrf_requests[c].request_type
             /\ vrf_requests'[c].player = vrf_requests[c].player
             /\ vrf_requests'[c].slot_index = vrf_requests[c].slot_index
             /\ vrf_requests'[c].ball_type = vrf_requests[c].ball_type
             /\ vrf_requests'[c].seed = vrf_requests[c].seed
             /\ vrf_requests[c].is_fulfilled => vrf_requests'[c].is_fulfilled
       /\ last'.op \in {"spawn_pokemon", "throw_ball"} /\ last'.err = "Ok" =>
             /\ game_config.vrf_counter \notin DOMAIN vrf_requests
             /\ DOMAIN vrf_requests' = DOMAIN vrf_requests \cup {game_config.vrf_counter}
             /\ last'.req = game_config.vrf_counter
             /\ ~vrf_requests'[game_config.vrf_counter].is_fulfilled
             /\ \A c \in DOMAIN vrf_requests :
                   vrf_requests'[c].seed # vrf_requests'[game_config.vrf_counter].seed]_vars

(* a spawn Request and a throw Request were consumed, the one by handle_spawn
   and the other by handle_throw, and a third Request was just created *)
C29_Witness ==
    /\ last.op = "throw_ball" /\ last.err = "Ok" /\ last.req = 2
    /\ DOMAIN vrf_requests = {0, 1, 2}
    /\ vrf_requests[0].request_type = VRF_TYPE_SPAWN
    /\ vrf_requests[0].is_fulfilled /\ consumed[0] = 1
    /\ vrf_requests[0].player = Authority
    /\ vrf_requests[1].request_type = VRF_TYPE_THROW
    /\ vrf_requests[1].is_fulfilled /\ consumed[1] = 1
    /\ vrf_requests[1].player \in Players
    /\ ~vrf_requests[2].is_fulfilled
    /\ game_config.vrf_counter = 3

(* C30: the catch rate applied to a throw is catch_rates[ball_type] as it
   stands when the Request is consumed, not as it stood at the request: a
   set_catch_rate between the request and the consume changes the judgement. *)
C30_RateAtConsumeTime ==
    [][\A c \in RequestIds :
          ThrowStep(c) =>
             LET req == vrf_requests[c]
                 r == vrf_randomness[req.seed].randomness
             IN last'.caught = (CatchRoll(r) < game_config.catch_rates[req.ball_type])]_vars

(* the only throw so far was requested at the initial rate 2 of the first
   ball, rolled 35, and was judged a catch at the rate 50 set in between *)
C30_Witness ==
    /\ last.op = "consume_randomness" /\ last.req = 0 /\ last.caught
    /\ game_config.vrf_counter = 1
    /\ vrf_requests[0].request_type = VRF_TYPE_THROW
    /\ vrf_requests[0].ball_type = 0
    /\ CatchRoll(vrf_randomness[vrf_requests[0].seed].randomness) = 35
    /\ DEFAULT_CATCH_RATES[0] = 2
    /\ game_config.catch_rates[0] = 50

(* the only throw so far rolled 1, below the initial rate 2, and was judged a
   miss at the rate 0 set in between *)
C30_WitnessMiss ==
    /\ last.op = "consume_randomness" /\ last.req = 0 /\ ~last.caught
    /\ game_config.vrf_counter = 1
    /\ vrf_requests[0].request_type = VRF_TYPE_THROW
    /\ vrf_requests[0].ball_type = 0
    /\ CatchRoll(vrf_randomness[vrf_requests[0].seed].randomness) = 1
    /\ game_config.catch_rates[0] = 0

(* counter values that differ in one little-endian byte only, three of them
   with the same low byte *)
SeedCounters == {0, 1, 256, 65536}
SeedArgs == SeedCounters \X {VRF_TYPE_SPAWN, VRF_TYPE_THROW}

(* a step that created the Request of key c *)
RequestCreatedStep(c) == c \notin DOMAIN vrf_requests /\ c \in DOMAIN vrf_requests'

(* C24: every Request has a seed different from every other Request's: a
   successful request reads vrf_counter, derives the seed from it and
   increments it by exactly one, so vrf_counter strictly increases across
   requests; make_vrf_seed is injective in (counter, request type); a failed
   request does not advance vrf_counter. *)
C24_SeedsUnique ==
    /\ [](/\ \A a \in SeedArgs, b \in SeedArgs :
                make_vrf_seed(a[1], a[2]) = make_vrf_seed(b[1], b[2]) => a = b
          /\ \A c \in RequestIds, d \in RequestIds :
                c # d => vrf_requests[c].seed # vrf_requests[d].seed
          /\ \A c \in RequestIds :
                /\ c < game_config.vrf_counter
                /\ vrf_requests[c].seed =
                      make_vrf_seed(c, vrf_requests[c].request_type))
    /\ [][/\ game_config'.vrf_counter >= game_config.vrf_counter
          /\ \A c \in DOMAIN vrf_requests' :
                RequestCreatedStep(c) =>
                   /\ c = game_config.vrf_counter
                   /\ game_config'.vrf_counter = game_config.vrf_counter + 1
                   /\ DOMAIN vrf_requests' = DOMAIN vrf_requests \cup {c}
          /\ game_config'.vrf_counter # game_config.vrf_counter =>
                RequestCreatedStep(game_config.vrf_counter)
          /\ SpawnRejectedStep =>
                /\ game_config'.vrf_counter = game_config.vrf_counter
                /\ DOMAIN vrf_requests' = DOMAIN vrf_requests]_vars

(* the second Request was just created, with a seed of its own *)
C24_Witness ==
    /\ last.op = "spawn_pokemon" /\ last.err = "Ok" /\ last.req = 1
    /\ game_config.vrf_counter = 2
    /\ DOMAIN vrf_requests = {0, 1}
    /\ vrf_requests[0].seed # vrf_requests[1].seed
    /\ vrf_requests[0].seed[0] = 0 /\ vrf_requests[1].seed[0] = 1

(* a request was refused after the first Request had been created *)
C24_WitnessRejected ==
    /\ last.op = "spawn_pokemon" /\ last.err = "SlotAlreadyOccupied"
    /\ game_config.vrf_counter = 1
    /\ DOMAIN vrf_requests = {0}

(* a step in which an instruction was refused with MathOverflow *)
OverflowRejectedStep == last'.err = "MathOverflow" /\ last' # last

(* C23: when pokemon_id_counter, vrf_counter or total_revenue is at its
   largest u64 value, or the cost of a purchase exceeds u64, the operation
   that increments it (spawn consume and force_spawn_pokemon, spawn request,
   purchase_balls) fails with MathOverflow and leaves all state unchanged;
   likewise withdraw_revenue at the largest total_withdrawn. *)
C23_CounterOverflowRejected ==
    /\ [](/\ game_config.vrf_counter = U64Max =>
                \A s \in SlotIdx :
                   SpawnPokemonError(s) \in
                      {"SlotAlreadyOccupied", "MaxActivePokemonReached", "MathOverflow"}
          /\ game_config.vrf_counter = U64Max /\ pokemon_slots.active_count = 0 =>
                \A s \in SlotIdx : SpawnPokemonError(s) = "MathOverflow"
          /\ game_config.pokemon_id_counter = U64Max =>
                /\ \A c \in RequestIds :
                      /\ ~vrf_requests[c].is_fulfilled
                      /\ vrf_requests[c].request_type = VRF_TYPE_SPAWN
                      /\ vrf_randomness[vrf_requests[c].seed].state = "fulfilled"
                      => ConsumeRandomnessError(c, 0, "none") = "MathOverflow"
                /\ ~pokemon_slots.slots[2].is_active =>
                      ForceSpawnPokemonError(2, 7, 7) = "MathOverflow"
          /\ \A p \in Players, b \in 0..(NUM_BALL_TYPES - 1) :
                LET funded == ~U64Less(treasury.player_token_account[p],
                                       3 * game_config.ball_prices[b])
                    in_cap == ~U64Less(MAX_PURCHASE_AMOUNT, 3 * game_config.ball_prices[b])
                IN /\ game_config.total_revenue = U64Max =>
                         /\ PurchaseBallsError(p, b, 3) \in
                               {"PurchaseExceedsMax", "InsufficientSolBalls", "MathOverflow"}
                         /\ ~CostOverflows(game_config.ball_prices[b], 3)
                               /\ funded /\ in_cap
                               => PurchaseBallsError(p, b, 3) = "MathOverflow"
                   /\ player_inventory[p].total_purchased = U64Max - 2 =>
                         /\ PurchaseBallsError(p, b, 3) # "Ok"
                         /\ ~CostOverflows(game_config.ball_prices[b], 3)
                               /\ funded /\ in_cap
                               => PurchaseBallsError(p, b, 3) = "MathOverflow"
                   /\ game_config.ball_prices[b] = U64Max =>
                         PurchaseBallsError(p, b, 3) = "MathOverflow"
          /\ treasury.total_withdrawn = U64Max =>
                \A a \in {1, DEFAULT_BALL_PRICES[0]} :
                   /\ WithdrawRevenueError(a) # "Ok"
                   /\ ~U64Less(treasury.game_solballs_account, a)
                         => WithdrawRevenueError(a) = "MathOverflow")
    /\ [][/\ OverflowRejectedStep => UNCHANGED <<accounts, consumed>>
          /\ game_config.vrf_counter = U64Max =>
                /\ game_config'.vrf_counter = U64Max
                /\ DOMAIN vrf_requests' = DOMAIN vrf_requests
                /\ DOMAIN vrf_randomness' = DOMAIN vrf_randomness
          /\ game_config.pokemon_id_counter = U64Max =>
                /\ game_config'.pokemon_id_counter = U64Max
                /\ \A s \in SlotIdx :
                      pokemon_slots'.slots[s].is_active => pokemon_slots.slots[s].is_active
                /\ pokemon_slots'.active_count <= pokemon_slots.active_count
                /\ \A c \in RequestIds :
                      vrf_requests[c].request_type = VRF_TYPE_SPAWN =>
                         vrf_requests'[c] = vrf_requests[c]
          /\ game_config.total_revenue = U64Max =>
                /\ game_config'.total_revenue = U64Max
                /\ \A p \in Players :
                      /\ player_inventory'[p].total_purchased =
                            player_inventory[p].total_purchased
                      /\ \A b \in 0..(NUM_BALL_TYPES - 1) :
                            player_inventory'[p].balls[b] <= player_inventory[p].balls[b]
                /\ treasury'.game_solballs_account <= treasury.game_solballs_account
          /\ \A b \in 0..(NUM_BALL_TYPES - 1), p \in Players :
                game_config.ball_prices[b] = U64Max =>
                   player_inventory'[p].balls[b] < player_inventory[p].balls[b] + 3
          /\ treasury.total_withdrawn = U64Max =>
                /\ treasury'.total_withdrawn = U64Max
                /\ treasury'.game_solballs_account >= treasury.game_solballs_account]_vars

(* a spawn request was refused at the largest vrf_counter, reached by the
   request before it *)
C23_Witness ==
    /\ last.op = "spawn_pokemon" /\ last.err = "MathOverflow"
    /\ game_config.vrf_counter = U64Max
    /\ DOMAIN vrf_requests = {U64Max - 1}

(* a spawn consume was refused at the largest pokemon_id_counter, reached by a
   forced spawn *)
C23_WitnessConsume ==
    /\ last.op = "consume_randomness" /\ last.err = "MathOverflow"
    /\ game_config.pokemon_id_counter = U64Max
    /\ pokemon_slots.slots[2].is_active
    /\ pokemon_slots.slots[2].pokemon_id = U64Max

(* force_spawn_pokemon was refused at the largest pokemon_id_counter, reached
   by a spawn consume *)
C23_WitnessForce ==
    /\ last.op = "force_spawn_pokemon" /\ last.err = "MathOverflow"
    /\ game_config.pokemon_id_counter = U64Max
    /\ pokemon_slots.active_count = 1
    /\ \E s \in CounterBallInputs : pokemon_slots.slots[s].pokemon_id = U64Max

(* a purchase was refused at the largest total_revenue, reached by the
   purchase before it *)
C23_WitnessRevenue ==
    /\ last.op = "purchase_balls" /\ last.err = "MathOverflow"
    /\ game_config.total_revenue = U64Max
    /\ player_inventory[1].total_purchased = 3
    /\ game_config.ball_prices = DEFAULT_BALL_PRICES

(* a purchase was refused for its cost, three balls at the largest price,
   with room left in total_revenue for the default price *)
C23_WitnessCost ==
    /\ last.op = "purchase_balls" /\ last.err = "MathOverflow"
    /\ game_config.ball_prices[1] = U64Max
    /\ game_config.total_revenue = U64Max - 3 * DEFAULT_BALL_PRICES[0]
    /\ CostOverflows(game_config.ball_prices[1], 3)

(* a withdrawal was refused at the largest total_withdrawn, reached by the
   withdrawal before it, with revenue left in the game account *)
C23_WitnessWithdrawn ==
    /\ last.op = "withdraw_revenue" /\ last.err = "MathOverflow"
    /\ treasury.total_withdrawn = U64Max
    /\ treasury.game_solballs_account = 2 * DEFAULT_BALL_PRICES[0]

(* C31: a throw consume that resolves as a catch increments total_catches of
   the requester's (vrf_request.player's) inventory by exactly one, a miss
   leaves total_catches unchanged, and no other operation changes
   total_catches. *)
C31_CatchCountsForRequester ==
    [][/\ \A c \in RequestIds :
             ThrowStep(c) =>
                LET player == vrf_requests[c].player
                IN /\ player_inventory'[player].total_catches =
                         player_inventory[player].total_catches
                         + (IF last'.caught THEN 1 ELSE 0)
                   /\ \A p \in Players \ {player} :
                         player_inventory'[p].total_catches =
                            player_inventory[p].total_catches
       /\ (\A c \in RequestIds : ~ThrowStep(c)) =>
             \A p \in Players :
                player_inventory'[p].total_catches = player_inventory[p].total_catches]_vars

(* C32: when a throw consume resolves as a catch while the vault count is 0,
   the award step is skipped: the vault is unchanged and no NftAwarded event
   is emitted, and the catch still completes: the slot is cleared,
   active_count is decremented, CaughtPokemon carries the default asset
   identifier and the Request is fulfilled. *)
C32_CatchOnEmptyVault ==
    [][\A c \in RequestIds :
          (CatchStep(c) /\ nft_vault.count = 0) =>
             /\ nft_vault' = nft_vault
             /\ awards' = awards
             /\ ~last'.transferred
             /\ last'.awarded = DefaultPubkey
             /\ pokemon_slots'.slots[vrf_requests[c].slot_index] = DefaultSlot
             /\ pokemon_slots'.active_count = pokemon_slots.active_count - 1
             /\ vrf_requests'[c].is_fulfilled]_vars

(* C33: in a catch with a non-empty vault the selected index is the
   little-endian u64 of randomness bytes [8..16] modulo the count before the
   removal; it is below that count, so the awarded identifier is one of the
   identifiers stored in the vault and never the default value. *)
C33_SelectedIndexInVault ==
    [][\A c \in RequestIds :
          (CatchStep(c) /\ nft_vault.count > 0) =>
             LET r == vrf_randomness[vrf_requests[c].seed].randomness
                 idx == U64LeMod(r, 8, 8, nft_vault.count)
             IN /\ idx < nft_vault.count
                /\ last'.awarded = nft_vault.mints[idx]
                /\ last'.awarded # DefaultPubkey
                /\ \E i \in 0..(nft_vault.count - 1) : nft_vault.mints[i] = last'.awarded
                /\ awards'[last'.awarded] = awards[last'.awarded] + 1]_vars

(* an award just selected the second of two stored identifiers, by an odd
   selection value and the count 2 *)
C33_Witness ==
    /\ last.op = "consume_randomness" /\ last.caught
    /\ last.awarded = 2
    /\ nft_vault.count = 1 /\ nft_vault.mints[0] = 1
    /\ U64LeMod(vrf_randomness[vrf_requests[last.req].seed].randomness, 8, 8, 2) = 1

(* number of positions below count at which the vault stores mint m *)
Occurrences(vault, m) ==
    Cardinality({k \in 0..(vault.count - 1) : vault.mints[k] = m})

(* the vault lost exactly one occurrence of the identifier removed *)
RemovedFrom(before, after, removed) ==
    \A m \in Mints :
       Occurrences(after, m) =
          Occurrences(before, m) - (IF m = removed THEN 1 ELSE 0)

(* C34: removing index i from a vault of count n, by withdraw_nft or by the
   award of a throw consume, yields a vault of count n - 1 whose stored
   identifiers are the previous ones minus the one at index i, each
   remaining one still present as often as before, with the vacated last
   position reset to the default value; the award path and the withdraw path
   produce the same vault for the same index. *)
C34_RemovalSwapsWithLast ==
    /\ [](\A i \in 0..(nft_vault.count - 1) :
             /\ AwardRemove(nft_vault, i) = WithdrawRemove(nft_vault, i)
             /\ RemovedFrom(nft_vault, WithdrawRemove(nft_vault, i), nft_vault.mints[i]))
    /\ [][nft_vault'.count < nft_vault.count =>
             /\ nft_vault'.count = nft_vault.count - 1
             /\ nft_vault'.mints[nft_vault.count - 1] = DefaultPubkey
             /\ \A k \in SlotIdx :
                   k >= nft_vault'.count => nft_vault'.mints[k] = DefaultPubkey
             /\ \E i \in 0..(nft_vault.count - 1) :
                   RemovedFrom(nft_vault, nft_vault', nft_vault.mints[i])
             /\ last'.op = "consume_randomness" =>
                   RemovedFrom(nft_vault, nft_vault', last'.awarded)]_vars

(* withdraw_nft just removed the first of two stored identifiers: the second
   took its place and the last position was reset *)
C34_Witness ==
    /\ last.op = "withdraw_nft" /\ last.err = "Ok"
    /\ deposits[1] = 1 /\ deposits[2] = 1
    /\ \A m \in Mints : awards[m] = 0
    /\ nft_vault.count = 1
    /\ nft_vault.mints[0] = 2 /\ nft_vault.mints[1] = DefaultPubkey

(* an award just removed the first of two stored identifiers *)
C34_WitnessAward ==
    /\ last.op = "consume_randomness" /\ last.caught /\ last.awarded = 1
    /\ deposits[1] = 1 /\ deposits[2] = 1
    /\ nft_vault.count = 1
    /\ nft_vault.mints[0] = 2 /\ nft_vault.mints[1] = DefaultPubkey

(* slot indexes and coordinates at and around the limits *)
ForceSlotValues == {0, 1, MAX_POKEMON_SLOTS - 1, MAX_POKEMON_SLOTS, U8Max}
ForceCoordValues == {0, MAX_COORDINATE, MAX_COORDINATE + 1}

(* a step in which force_spawn_pokemon was refused, and one in which it spawned *)
ForceRejectedStep ==
    last'.op = "force_spawn_pokemon" /\ last'.err # "Ok" /\ last' # last
ForceSpawnedStep ==
    /\ last'.op = "force_spawn_pokemon" /\ last'.err = "Ok"
    /\ game_config'.pokemon_id_counter # game_config.pokemon_id_counter

(* C35: force_spawn_pokemon is rejected without any state change when
   slot_index >= 20 (InvalidSlotIndex), when pos_x or pos_y exceeds
   MAX_COORDINATE (InvalidCoordinate), when the target slot is active
   (SlotAlreadyOccupied) or when active_count >= max_active_pokemon
   (MaxActivePokemonReached); otherwise it increments pokemon_id_counter,
   writes an active creature with the new id, the given coordinates and
   throw_attempts 0 into the slot, and increments active_count by one. *)
C35_ForceSpawnRejections ==
    /\ [](game_config.is_initialized =>
             \A s \in ForceSlotValues, x \in ForceCoordValues, y \in ForceCoordValues :
                ForceSpawnPokemonError(s, x, y) =
                   IF s >= 20 THEN "InvalidSlotIndex"
                   ELSE IF x > MAX_COORDINATE \/ y > MAX_COORDINATE THEN "InvalidCoordinate"
                   ELSE IF pokemon_slots.slots[s].is_active THEN "SlotAlreadyOccupied"
                   ELSE IF pokemon_slots.active_count >= game_config.max_active_pokemon
                   THEN "MaxActivePokemonReached"
                   ELSE "Ok")
    /\ [][/\ ForceRejectedStep =>
                /\ UNCHANGED <<accounts, deposits, awards, consumed, reads, since_award>>
                /\ last'.err \in {"InvalidSlotIndex", "InvalidCoordinate",
                                  "SlotAlreadyOccupied", "MaxActivePokemonReached"}
          /\ ForceSpawnedStep =>
                /\ game_config'.pokemon_id_counter = game_config.pokemon_id_counter + 1
                /\ pokemon_slots'.active_count = pokemon_slots.active_count + 1
                /\ pokemon_slots.active_count < game_config.max_active_pokemon
                /\ \E s \in SlotIdx, x \in 0..MAX_COORDINATE, y \in 0..MAX_COORDINATE,
                      t \in Timestamps :
                      /\ ~pokemon_slots.slots[s].is_active
                      /\ pokemon_slots'.slots[s] =
                            [is_active |-> TRUE,
                             pokemon_id |-> game_config'.pokemon_id_counter,
                             pos_x |-> x, pos_y |-> y, throw_attempts |-> 0,
                             spawn_timestamp |-> t]
                      /\ \A o \in SlotIdx \ {s} :
                            pokemon_slots'.slots[o] = pokemon_slots.slots[o]
                /\ UNCHANGED <<nft_vault, vrf_requests, vrf_randomness, player_inventory,
                               vault_nft_account, treasury>>]_vars

(* a forced spawn into the empty slot 1 was refused at the cap of one, after an
   accepted one into slot 0 *)
C35_Witness ==
    /\ last.op = "force_spawn_pokemon" /\ last.err = "MaxActivePokemonReached"
    /\ game_config.max_active_pokemon = 1
    /\ pokemon_slots.active_count = 1
    /\ pokemon_slots.slots[0] = SpawnedSlot(1, 7, 7, 1000)
    /\ ~pokemon_slots.slots[1].is_active

C35_WitnessOccupied ==
    /\ last.op = "force_spawn_pokemon" /\ last.err = "SlotAlreadyOccupied"
    /\ pokemon_slots.slots[0].is_active

C35_WitnessCoordinate ==
    /\ last.op = "force_spawn_pokemon" /\ last.err = "InvalidCoordinate"
    /\ pokemon_slots.active_count = 0 /\ game_config.pokemon_id_counter = 0

C35_WitnessIndex ==
    /\ last.op = "force_spawn_pokemon" /\ last.err = "InvalidSlotIndex"
    /\ pokemon_slots.active_count = 0 /\ game_config.pokemon_id_counter = 0

(* a step in which despawn_pokemon cleared the slot s *)
DespawnedStep(s) ==
    /\ last'.op = "despawn_pokemon" /\ last'.err = "Ok"
    /\ pokemon_slots.slots[s].is_active /\ ~pokemon_slots'.slots[s].is_active

(* C36: despawn_pokemon on an inactive slot fails with SlotNotActive and
   changes nothing; on an active slot it resets that slot to the empty
   default record and decrements active_count by exactly one, leaving every
   other slot, the vault and all pending Requests unchanged. *)
C36_DespawnClearsOneSlot ==
    /\ [](game_config.is_initialized =>
             \A s \in SlotIdx :
                ~pokemon_slots.slots[s].is_active =>
                   DespawnPokemonError(s) = "SlotNotActive")
    /\ [][\A s \in SlotIdx :
             DespawnedStep(s) =>
                /\ pokemon_slots'.slots[s] = DefaultSlot
                /\ pokemon_slots'.active_count = pokemon_slots.active_count - 1
                /\ \A o \in SlotIdx \ {s} :
                      pokemon_slots'.slots[o] = pokemon_slots.slots[o]
                /\ UNCHANGED <<nft_vault, vrf_requests, vrf_randomness>>]_vars

(* C37: a throw consume whose target slot is not active at consume time (the
   creature was caught by another pending throw, or despawned, after the
   throw was requested) awards no asset from the vault and modifies neither
   the slot registry nor active_count. *)
C37_ThrowOnInactiveSlotHasNoEffect ==
    [][\A c \in RequestIds :
          (ThrowStep(c) /\ ~pokemon_slots.slots[vrf_requests[c].slot_index].is_active) =>
             /\ nft_vault' = nft_vault
             /\ awards' = awards
             /\ last'.awarded = DefaultPubkey
             /\ pokemon_slots' = pokemon_slots]_vars

(* C38: a throw resolves only against the creature it was thrown at: if the
   target slot came to hold a creature with a different pokemon_id between
   the throw request and its consume, the consume does not catch, relocate
   or add attempts to the new creature.  Every throw of the scenario is
   requested at the creature with pokemon_id 1. *)
C38_ThrowBoundToCreature ==
    [][\A c \in RequestIds :
          LET s == vrf_requests[c].slot_index
          IN (/\ ThrowStep(c)
              /\ pokemon_slots.slots[s].is_active
              /\ pokemon_slots.slots[s].pokemon_id # 1) =>
                 /\ pokemon_slots'.slots[s] = pokemon_slots.slots[s]
                 /\ pokemon_slots'.active_count = pokemon_slots.active_count]_vars

(* C39: in every reachable state every slot with is_active = false equals the
   empty default record (pokemon_id 0, pos_x 0, pos_y 0, throw_attempts 0,
   spawn_timestamp 0). *)
C39_InactiveSlotsAreDefault ==
    \A s \in SlotIdx :
       ~pokemon_slots.slots[s].is_active => pokemon_slots.slots[s] = DefaultSlot

(* the errors of an award whose transfer accounts are malformed *)
TransferErrors == {"NftTransferAccountsMissing", "TokenTransferFailed"}

(* the Request c is an unconsumed throw whose randomness is published and
   resolves as a catch that selects an asset *)
AwardPending(c) ==
    /\ vrf_requests[c].request_type = VRF_TYPE_THROW
    /\ ~vrf_requests[c].is_fulfilled
    /\ vrf_randomness[vrf_requests[c].seed].state = "fulfilled"
    /\ CatchRoll(vrf_randomness[vrf_requests[c].seed].randomness)
          < game_config.catch_rates[vrf_requests[c].ball_type]
    /\ nft_vault.count > 0

(* C40: when a catch selects an asset and the transfer accounts supplied for
   it are malformed (the vault's or the recipient's token account is not
   owned by the token program, or the transfer itself fails), the consume
   fails with an error and has no effect: the asset is still in the vault,
   the slot is still active, and the Request is still unfulfilled and can be
   consumed again later. *)
C40_MalformedTransferRejected ==
    /\ [](\A c \in RequestIds :
             AwardPending(c) =>
                \A inv \in {0} \cup Players :
                   /\ ConsumeRandomnessError(c, inv, "bad_owner")
                         = "NftTransferAccountsMissing"
                   /\ ConsumeRandomnessError(c, inv, "transfer_fails")
                         = "TokenTransferFailed"
                   /\ ConsumeRandomnessError(c, inv, "none") = "Ok")
    /\ [][\A c \in RequestIds :
             (/\ last'.op = "consume_randomness" /\ last'.req = c
              /\ last'.err \in TransferErrors /\ last' # last) =>
                /\ AwardPending(c)
                /\ UNCHANGED <<accounts, deposits, awards, consumed, reads, since_award>>
                /\ ~vrf_requests'[c].is_fulfilled
                /\ consumed'[c] = 0]_vars

(* a throw was consumed with the asset transferred, after a consume of the same
   Request had failed on accounts not owned by the token program *)
C40_Witness ==
    /\ last.op = "consume_randomness" /\ last.err = "Ok" /\ last.req = 0
    /\ last.caught /\ last.transferred /\ last.awarded = 1
    /\ "NftTransferAccountsMissing" \in rejected[0]
    /\ consumed[0] = 1
    /\ vrf_requests[0].is_fulfilled
    /\ nft_vault.count = 0

(* the consume has just failed on such accounts: the asset is still stored,
   the slot still active, the Request still open *)
C40_WitnessRejected ==
    /\ last.op = "consume_randomness" /\ last.err = "NftTransferAccountsMissing"
    /\ last.req = 0
    /\ nft_vault.count = 1 /\ nft_vault.mints[0] = 1
    /\ pokemon_slots.slots[0].is_active
    /\ ~vrf_requests[0].is_fulfilled

C40_WitnessTransferFails ==
    /\ last.op = "consume_randomness" /\ last.err = "TokenTransferFailed"
    /\ last.req = 0
    /\ nft_vault.count = 1
    /\ pokemon_slots.slots[0].is_active
    /\ ~vrf_requests[0].is_fulfilled

====
